---- MODULE Spec2Model ----
(***************************************************************************)
(* A model of go-mcp-server-example: the JSON-RPC dispatcher               *)
(* (internal/server), the stdio transport and the HTTP/SSE transport       *)
(* (pkg/transport), with the Coffee capability handler (pkg/handlers).     *)
(*                                                                         *)
(* Values.  A JSON-RPC id is modelled by its JSON text ("1", "a"); the Go  *)
(* nil interface (id absent or null) is NilID.  A Go error is a string,    *)
(* the nil error is NoErr.  net/http response writers implement            *)
(* http.Flusher, so startSSEStream's "Streaming unsupported" branch is not *)
(* an outcome of this build and is left out.                               *)
(***************************************************************************)
EXTENDS Integers, Sequences, FiniteSets, TLC

(***************************************************************************)
(* Bounds of the model.                                                    *)
(***************************************************************************)
\* HTTP request-handling goroutines (one per inbound request)
MaxReq == 2
\* lines the stdio reader goroutine reads from standard input
MaxLines == 3
\* sender/session API calls of the direct harness
MaxCalls == 3

(***************************************************************************)
(* Envelope and error model (pkg/mcp).                                     *)
(***************************************************************************)
JSONRPCVersion == "2.0"
ProtocolVersion == "2025-03-26"
ErrorCodeParseError == -32700
ErrorCodeInvalidRequest == -32600
ErrorCodeMethodNotFound == -32601
ErrorCodeInvalidParams == -32602
ErrorCodeInternalError == -32603

NilID == "null"
NoErr == ""
IDs == {"1", "a"}

\* Response.Result is omitted from the wire when it is the nil interface,
\* Response.Error when it is the nil pointer (omitempty).
NoResult == [kind |-> "<omitted>", items |-> <<>>]
NoError == [code |-> 0, message |-> "<omitted>"]

Response(id, result, error) ==
    [jsonrpc |-> JSONRPCVersion, id |-> id, result |-> result, error |-> error]

ErrorResponse(code, message) == [code |-> code, message |-> message]

\* A decoded JSON value of a params field: absent, a non-string, or a string.
Absent == [t |-> "absent", v |-> ""]
NonString == [t |-> "nonstring", v |-> ""]
Str(s) == [t |-> "string", v |-> s]

\* The arguments field: absent, not an object, or an object (of which the
\* model keeps the "name" key, the only one a handler's outcome depends on).
NoArgs == [t |-> "absent", name |-> Absent]
NonObjArgs == [t |-> "nonobj", name |-> Absent]
ObjArgs(n) == [t |-> "obj", name |-> n]
EmptyMap == [name |-> Absent]

\* Request.Params: nil, a non-object JSON value, or an object.
NilParams == [shape |-> "nil", name |-> Absent, uri |-> Absent, arguments |-> NoArgs]
ScalarParams == [shape |-> "scalar", name |-> Absent, uri |-> Absent, arguments |-> NoArgs]
ObjParams(n, u, a) == [shape |-> "object", name |-> n, uri |-> u, arguments |-> a]

Request(v, m, id, p) == [jsonrpc |-> v, method |-> m, id |-> id, params |-> p]

(***************************************************************************)
(* Coffee capability handler (pkg/handlers/coffee.go).  A handler outcome  *)
(* is [err, result]; expired says the call's context is done.              *)
(***************************************************************************)
Drinks == {"Latte", "Mocha", "Flat White"}

Ok(result) == [err |-> NoErr, result |-> result]
Fail(msg) == [err |-> msg, result |-> NoResult]

\* A variant of ListTools that leaves getDrinkInfo out.
ListTools_OneTool == Ok([kind |-> "tools", items |-> <<"getDrinkNames">>])

ListTools == Ok([kind |-> "tools", items |-> <<"getDrinkNames", "getDrinkInfo">>])

\* A mcp.ContentItem of a type and with a text.
ContentItem(type, text) == type \o ":" \o text

\* A variant of getDrinkNames that answers a done context with no content.
getDrinkNames_NoContent(expired) ==
    IF expired
    THEN Ok([kind |-> "content", items |-> <<>>])
    ELSE Ok([kind |-> "content", items |-> <<ContentItem("text", "names")>>])

getDrinkNames(expired) ==
    IF expired
    THEN Ok([kind |-> "content",
             items |-> <<ContentItem("text", "{\"error\": \"Request cancelled\"}")>>])
    ELSE Ok([kind |-> "content", items |-> <<ContentItem("text", "names")>>])

getDrinkInfo(expired, args) ==
    IF expired THEN Fail("context done")
    ELSE IF args.name.t # "string"
    THEN Fail("invalid name parameter: expected string")
    ELSE IF args.name.v \in Drinks
    THEN Ok([kind |-> "content", items |-> <<ContentItem("text", "drink:" \o args.name.v)>>])
    ELSE Fail("drink not found: " \o args.name.v)

CallTool(expired, params) ==
    CASE params.name = "getDrinkNames" -> getDrinkNames(expired)
      [] params.name = "getDrinkInfo" -> getDrinkInfo(expired, params.arguments)
      [] OTHER -> Fail("tool " \o params.name \o " not found")

ListResources == Ok([kind |-> "resources", items |-> <<"menu://app">>])

getMenuResource == Ok([kind |-> "contents", items |-> <<"menu://app:drinks">>])

\* A variant of ReadResource that serves the menu under a second URI.
ReadResource_TwoURIs(params) ==
    IF params.uri \in {"menu://app", "menu://other"} THEN getMenuResource
    ELSE Fail("resource not found: " \o params.uri)

ReadResource(params) ==
    IF params.uri = "menu://app" THEN getMenuResource
    ELSE Fail("resource not found: " \o params.uri)

ListPrompts ==
    Ok([kind |-> "prompts", items |-> <<"drinkRecommendation", "drinkDescription">>])

GetPrompt(params) ==
    CASE params.name = "drinkRecommendation" ->
             Ok([kind |-> "messages", items |-> <<"user:text:recommendation">>])
      [] params.name = "drinkDescription" ->
             Ok([kind |-> "messages", items |-> <<"user:text:description">>])
      [] OTHER -> Fail("prompt " \o params.name \o " not found")

\* The handlers behind the dispatcher's three interfaces: the Coffee
\* handler, or an implementation of the interfaces whose operations fail.
HandlerKinds == {"coffee", "failing"}

H_ListTools(h) == IF h = "coffee" THEN ListTools ELSE Fail("list failed")
H_CallTool(h, expired, p) == IF h = "coffee" THEN CallTool(expired, p) ELSE Fail("call failed")
H_ListResources(h) == IF h = "coffee" THEN ListResources ELSE Fail("list failed")
H_ReadResource(h, p) == IF h = "coffee" THEN ReadResource(p) ELSE Fail("read failed")
H_ListPrompts(h) == IF h = "coffee" THEN ListPrompts ELSE Fail("list failed")
H_GetPrompt(h, p) == IF h = "coffee" THEN GetPrompt(p) ELSE Fail("get failed")

(***************************************************************************)
(* Dispatcher (internal/server).  Parameter parsing helpers return         *)
(* [err, name | uri, arguments].                                           *)
(***************************************************************************)
\* A variant of parseToolCallParams that insists on an arguments object.
parseToolCallParams_StrictArguments(params) ==
    IF params.shape # "object" \/ params.name.t # "string" \/ params.arguments.t # "obj"
    THEN [err |-> "invalid params", name |-> "", arguments |-> EmptyMap]
    ELSE [err |-> NoErr, name |-> params.name.v,
          arguments |-> [name |-> params.arguments.name]]

parseToolCallParams(params) ==
    IF params.shape = "nil"
    THEN [err |-> "params cannot be nil", name |-> "", arguments |-> EmptyMap]
    ELSE IF params.shape # "object"
    THEN [err |-> "params must be an object", name |-> "", arguments |-> EmptyMap]
    ELSE IF params.name.t # "string"
    THEN [err |-> "name parameter is required and must be a string",
          name |-> "", arguments |-> EmptyMap]
    ELSE [err |-> NoErr, name |-> params.name.v,
          arguments |-> IF params.arguments.t = "obj"
                        THEN [name |-> params.arguments.name]
                        ELSE EmptyMap]

parseResourceParams(params) ==
    IF params.shape = "nil"
    THEN [err |-> "params cannot be nil", uri |-> ""]
    ELSE IF params.shape # "object"
    THEN [err |-> "params must be an object", uri |-> ""]
    ELSE IF params.uri.t # "string"
    THEN [err |-> "uri parameter is required and must be a string", uri |-> ""]
    ELSE [err |-> NoErr, uri |-> params.uri.v]

parsePromptParams(params) ==
    IF params.shape = "nil"
    THEN [err |-> "params cannot be nil", name |-> "", arguments |-> EmptyMap]
    ELSE IF params.shape # "object"
    THEN [err |-> "params must be an object", name |-> "", arguments |-> EmptyMap]
    ELSE IF params.name.t # "string"
    THEN [err |-> "name parameter is required and must be a string",
          name |-> "", arguments |-> EmptyMap]
    ELSE [err |-> NoErr, name |-> params.name.v,
          arguments |-> IF params.arguments.t = "obj"
                        THEN [name |-> params.arguments.name]
                        ELSE EmptyMap]

\* What a dispatcher method does with the sender of its context: the
\* sequence of sender operations it invokes, in order.  Without a sender
\* sendError and sendResponseDirect invoke nothing (and return an error).
SendErrorCall(id, code, message) ==
    [op |-> "SendError", resp |-> Response(id, NoResult, ErrorResponse(code, message))]
SendResponseCall(id, result) ==
    [op |-> "SendResponse", resp |-> Response(id, result, NoError)]

sendError(hasSender, id, code, message) ==
    IF hasSender THEN <<SendErrorCall(id, code, message)>> ELSE <<>>

\* A variant of sendResponseDirect that sends whether or not the context
\* carries a sender.
sendResponseDirect_Unchecked(hasSender, response) ==
    <<[op |-> "SendResponse", resp |-> response]>>

sendResponseDirect(hasSender, response) ==
    IF hasSender THEN <<[op |-> "SendResponse", resp |-> response]>> ELSE <<>>

sendResponse(hasSender, id, result) ==
    sendResponseDirect(hasSender, Response(id, result, NoError))

\* What one HandleRequest call does: the capability handler operations it
\* invokes, with what it passes them, and the sender operations it invokes.
Invocation(op, arg, arguments) == [op |-> op, arg |-> arg, arguments |-> arguments]
Served(invoked, sends) == [invoked |-> invoked, sends |-> sends]

Initialize == Ok([kind |-> "initialize", items |-> <<ProtocolVersion>>])

handleInitialize(hasSender, id) ==
    LET r == Initialize
    IN Served(<<>>,
              IF r.err # NoErr
              THEN sendError(hasSender, id, ErrorCodeInternalError, "Failed to initialize")
              ELSE sendResponse(hasSender, id, r.result))

handleToolsList(hasSender, h, id) ==
    LET r == H_ListTools(h)
    IN Served(<<Invocation("ListTools", "", EmptyMap)>>,
              IF r.err # NoErr
              THEN sendError(hasSender, id, ErrorCodeInternalError, "Failed to list tools")
              ELSE sendResponse(hasSender, id, r.result))

\* A variant of handleToolsCall that reports a failed tool call as an
\* internal error.
handleToolsCall_InternalError(hasSender, h, expired, id, req) ==
    LET p == parseToolCallParams(req.params)
    IN IF p.err # NoErr
       THEN Served(<<>>, sendError(hasSender, id, ErrorCodeInvalidParams,
                                   "Invalid tool call parameters"))
       ELSE LET r == H_CallTool(h, expired, p)
            IN Served(<<Invocation("CallTool", p.name, p.arguments)>>,
                      IF r.err # NoErr
                      THEN sendError(hasSender, id, ErrorCodeInternalError,
                                     "Tool call failed")
                      ELSE sendResponse(hasSender, id, r.result))

\* A variant of handleToolsCall that goes on to call the tool after reporting
\* bad parameters.
handleToolsCall_NoReturn(hasSender, h, expired, id, req) ==
    LET p == parseToolCallParams(req.params)
        r == H_CallTool(h, expired, p)
        first == IF p.err # NoErr
                 THEN sendError(hasSender, id, ErrorCodeInvalidParams,
                                "Invalid tool call parameters")
                 ELSE <<>>
    IN Served(<<Invocation("CallTool", p.name, p.arguments)>>,
              first \o (IF r.err # NoErr
                        THEN sendError(hasSender, id, ErrorCodeInvalidParams,
                                       "Tool call failed: " \o r.err)
                        ELSE sendResponse(hasSender, id, r.result)))

handleToolsCall(hasSender, h, expired, id, req) ==
    LET p == parseToolCallParams(req.params)
    IN IF p.err # NoErr
       THEN Served(<<>>, sendError(hasSender, id, ErrorCodeInvalidParams,
                                   "Invalid tool call parameters"))
       ELSE LET r == H_CallTool(h, expired, p)
            IN Served(<<Invocation("CallTool", p.name, p.arguments)>>,
                      IF r.err # NoErr
                      THEN sendError(hasSender, id, ErrorCodeInvalidParams,
                                     "Tool call failed: " \o r.err)
                      ELSE sendResponse(hasSender, id, r.result))

handleResourcesList(hasSender, h, id) ==
    LET r == H_ListResources(h)
    IN Served(<<Invocation("ListResources", "", EmptyMap)>>,
              IF r.err # NoErr
              THEN sendError(hasSender, id, ErrorCodeInternalError,
                             "Failed to list resources")
              ELSE sendResponse(hasSender, id, r.result))

handleResourcesRead(hasSender, h, id, req) ==
    LET p == parseResourceParams(req.params)
    IN IF p.err # NoErr
       THEN Served(<<>>, sendError(hasSender, id, ErrorCodeInvalidParams,
                                   "Invalid resource read parameters"))
       ELSE LET r == H_ReadResource(h, p)
            IN Served(<<Invocation("ReadResource", p.uri, EmptyMap)>>,
                      IF r.err # NoErr
                      THEN sendError(hasSender, id, ErrorCodeInvalidParams,
                                     "Resource read failed: " \o r.err)
                      ELSE sendResponse(hasSender, id, r.result))

handlePromptsList(hasSender, h, id) ==
    LET r == H_ListPrompts(h)
    IN Served(<<Invocation("ListPrompts", "", EmptyMap)>>,
              IF r.err # NoErr
              THEN sendError(hasSender, id, ErrorCodeInternalError, "Failed to list prompts")
              ELSE sendResponse(hasSender, id, r.result))

handlePromptsGet(hasSender, h, id, req) ==
    LET p == parsePromptParams(req.params)
    IN IF p.err # NoErr
       THEN Served(<<>>, sendError(hasSender, id, ErrorCodeInvalidParams,
                                   "Invalid prompt parameters"))
       ELSE LET r == H_GetPrompt(h, p)
            IN Served(<<Invocation("GetPrompt", p.name, p.arguments)>>,
                      IF r.err # NoErr
                      THEN sendError(hasSender, id, ErrorCodeInvalidParams,
                                     "Prompt call failed: " \o r.err)
                      ELSE sendResponse(hasSender, id, r.result))

\* A variant of handlePing that answers with a null id.
handlePing_NullID(hasSender, id) ==
    Served(<<>>, sendResponse(hasSender, NilID, [kind |-> "object", items |-> <<>>]))

handlePing(hasSender, id) ==
    Served(<<>>, sendResponse(hasSender, id, [kind |-> "object", items |-> <<>>]))

\* A variant of HandleRequest whose default case answers as ping does.
HandleRequest_DefaultPing(hasSender, h, expired, req) ==
    CASE req.method = "initialize" -> handleInitialize(hasSender, req.id)
      [] req.method = "tools/list" -> handleToolsList(hasSender, h, req.id)
      [] req.method = "tools/call" -> handleToolsCall(hasSender, h, expired, req.id, req)
      [] req.method = "resources/list" -> handleResourcesList(hasSender, h, req.id)
      [] req.method = "resources/read" -> handleResourcesRead(hasSender, h, req.id, req)
      [] req.method = "prompts/list" -> handlePromptsList(hasSender, h, req.id)
      [] req.method = "prompts/get" -> handlePromptsGet(hasSender, h, req.id, req)
      [] OTHER -> handlePing(hasSender, req.id)

\* Server.HandleRequest: what one call does.
HandleRequest(hasSender, h, expired, req) ==
    CASE req.method = "initialize" -> handleInitialize(hasSender, req.id)
      [] req.method = "tools/list" -> handleToolsList(hasSender, h, req.id)
      [] req.method = "tools/call" -> handleToolsCall(hasSender, h, expired, req.id, req)
      [] req.method = "resources/list" -> handleResourcesList(hasSender, h, req.id)
      [] req.method = "resources/read" -> handleResourcesRead(hasSender, h, req.id, req)
      [] req.method = "prompts/list" -> handlePromptsList(hasSender, h, req.id)
      [] req.method = "prompts/get" -> handlePromptsGet(hasSender, h, req.id, req)
      [] req.method = "ping" -> handlePing(hasSender, req.id)
      [] OTHER -> Served(<<>>, sendError(hasSender, req.id, ErrorCodeMethodNotFound,
                                         "Method " \o req.method \o " not found"))

NoSenderErr == "no response sender in context"

(***************************************************************************)
(* State.                                                                  *)
(***************************************************************************)
VARIABLES
    mode,       \* which program runs: "http", "stdio", or an API harness
    ctxDone,    \* the root context of run() is cancelled
    \* -- HTTP transport: one task per inbound request
    pc,         \* pc[t]: where request-handling task t stands
    spc,        \* spc[t]: where task t stands inside SSESession.sendEvent
    req,        \* req[t]: the HTTP request task t serves
    ev,         \* ev[t]: arguments of task t's current sendEvent call
    cur,        \* cur[t]: the session task t's current sendEvent writes to
    todo,       \* todo[t]: sender operations HandleRequest has yet to invoke
    ret,        \* ret[t]: what the task's last call returned
    dispatches, \* dispatches[t]: the server.HandleRequest calls task t has made
    w,          \* w[t]: what has been written to task t's http.ResponseWriter
    conn,       \* conn[t]: task t's connection is "up", or "lost" (writes to w[t] fail)
    flushes,    \* flushes[t]: how many times task t's http.Flusher was flushed
    sess,       \* sess[t]: the SSESession made by task t (ID, eventID, closed)
    smu,        \* smu[t]: holder of sess[t].mu
    sessions,   \* HTTPTransport.sessions: session id -> session
    tmu,        \* holder of HTTPTransport.mu
    now,        \* the clock read by time.Now() when a session id is minted
    stopPc,     \* where Start/Stop stands
    stopLeft,   \* sessions Stop's range loop has yet to visit
    \* -- stdio transport
    rpc,        \* reader goroutine position
    rline,      \* the line the reader holds (scanner.Text())
    nread,      \* lines read so far
    scanned,    \* the lines read so far, in order
    chClosed,   \* which of errChan, lineChan the reader has closed
    lpc,        \* dispatch loop position / Start's return
    stdout,     \* lines written to standard output
    handled,    \* lines the dispatch loop received, in order
    \* -- API harnesses
    hs,         \* an HTTPResponseSender: [sent, out]
    log,        \* harness: sender calls made and what each returned
    invoked     \* harness: capability handler operations HandleRequest invoked

httpVars == <<pc, spc, req, ev, cur, todo, ret, dispatches, w, conn, flushes, sess, smu, sessions, tmu, now,
              stopPc, stopLeft>>
stdioVars == <<rpc, rline, nread, scanned, chClosed, lpc, stdout, handled>>
harnessVars == <<hs, log, invoked>>
vars == <<mode, ctxDone, httpVars, stdioVars, harnessVars>>

Tasks == 1..MaxReq

\* Holders of a mutex: a task, Stop, or nobody.
Free == 0
Stopper == -1

EmptyRegistry == [k \in {} |-> 0]
Put(m, k, v) == [x \in (DOMAIN m) \cup {k} |-> IF x = k THEN v ELSE m[x]]
Delete(m, k) == [x \in (DOMAIN m) \ {k} |-> m[x]]
Registered == {sessions[k] : k \in DOMAIN sessions}

NoSession == [ID |-> "", eventID |-> 0, closed |-> FALSE, made |-> FALSE]
NoEvent == [type |-> "", data |-> [none |-> TRUE]]
NoRequest == [verb |-> "none"]

(***************************************************************************)
(* Header values.  A header is a sequence of characters; the empty         *)
(* sequence is an absent (or empty) header.                                *)
(***************************************************************************)
Digit == [c \in {"0", "1", "2", "3", "4", "5", "6", "7", "8", "9"} |->
            CASE c = "0" -> 0 [] c = "1" -> 1 [] c = "2" -> 2 [] c = "3" -> 3
              [] c = "4" -> 4 [] c = "5" -> 5 [] c = "6" -> 6 [] c = "7" -> 7
              [] c = "8" -> 8 [] c = "9" -> 9]

RECURSIVE DigitsValue(_)
DigitsValue(cs) ==
    IF cs = <<>> THEN 0
    ELSE 10 * DigitsValue(SubSeq(cs, 1, Len(cs) - 1)) + Digit[cs[Len(cs)]]

\* strconv.Atoi: an optional sign, then one or more decimal digits.
Atoi(h) ==
    LET signed == h # <<>> /\ h[1] \in {"+", "-"}
        ds == IF signed THEN Tail(h) ELSE h
    IN IF ds = <<>> \/ \E i \in 1..Len(ds) : ds[i] \notin DOMAIN Digit
       THEN [err |-> "invalid syntax", n |-> 0]
       ELSE [err |-> NoErr,
             n |-> IF signed /\ h[1] = "-" THEN 0 - DigitsValue(ds) ELSE DigitsValue(ds)]

\* Last-Event-ID headers a client may send.
LastEventIDs == {<<>>, <<"0">>, <<"2">>, <<"1", "0">>, <<"-", "1">>, <<"+", "1">>,
                 <<"x">>, <<"2", "x">>, <<"-">>}
\* Mcp-Session-Id headers a client may send ("" is absent).
ClientSessionIDs == {"", "s1"}

\* A variant that resumes at the last event id itself.
SeedEventID_NoIncrement(lastEventID) ==
    IF lastEventID # <<>> /\ Atoi(lastEventID).err = NoErr
    THEN Atoi(lastEventID).n
    ELSE 0

\* startSSEStream: the first event id of a stream, from its Last-Event-ID.
SeedEventID(lastEventID) ==
    IF lastEventID # <<>> /\ Atoi(lastEventID).err = NoErr
    THEN Atoi(lastEventID).n + 1
    ELSE 0

\* startSSEStream: the session id, the client's or a fresh time-derived one.
SessionIDFor(header, clock) ==
    IF header = "" THEN "session_" \o ToString(clock) ELSE header

(***************************************************************************)
(* Response senders (pkg/transport).                                       *)
(***************************************************************************)
\* What the writers receive.  An HTTP reply is one item: status and body.
JSONReply(status, response) == [k |-> "json", status |-> status, v |-> response]
StatusOnly(status) == [k |-> "status", status |-> status]
IdLine(n) == [k |-> "id", n |-> n]
EventLine(name) == [k |-> "event", name |-> name]
DataLine(fragment) == [k |-> "data", v |-> fragment]
BlankLine == [k |-> "blank"]

\* A variant of the transport's sendError that fills in a result as well.
TransportSendError_WithResult(id, code, message) ==
    [k |-> "json", status |-> 400,
     v |-> [jsonrpc |-> JSONRPCVersion, id |-> id,
            result |-> [kind |-> "object", items |-> <<>>],
            error |-> [code |-> code, message |-> message]]]

\* A variant of SendResponse without the already-sent guard.
HTTPSendResponse_NoGuard(h, response, encErr) ==
    [h |-> [sent |-> TRUE, out |-> Append(h.out, JSONReply(200, response))],
     err |-> encErr]

\* A variant of SendResponse that marks the sender used only when Encode succeeds.
HTTPSendResponse_SentOnSuccess(h, response, encErr) ==
    IF h.sent
    THEN [h |-> h, err |-> "response already sent"]
    ELSE [h |-> [sent |-> encErr = NoErr, out |-> Append(h.out, JSONReply(200, response))],
          err |-> encErr]

\* HTTPResponseSender.SendResponse under h.mu; encErr is what Encode returns.
HTTPSendResponse(h, response, encErr) ==
    IF h.sent
    THEN [h |-> h, err |-> "response already sent"]
    ELSE [h |-> [sent |-> TRUE, out |-> Append(h.out, JSONReply(200, response))],
          err |-> encErr]

HTTPSendError(h, id, code, message, encErr) ==
    HTTPSendResponse(h, Response(id, NoResult, ErrorResponse(code, message)), encErr)

NewHTTPSender == [sent |-> FALSE, out |-> <<>>]

\* One sender operation of the dispatcher on an HTTPResponseSender.
HTTPInvoke(h, call, encErr) ==
    IF call.op = "SendResponse"
    THEN HTTPSendResponse(h, call.resp, encErr)
    ELSE HTTPSendError(h, call.resp.id, call.resp.error.code,
                       call.resp.error.message, encErr)

\* The dispatcher's operations in order; HandleRequest returns what the last
\* one returned, or the missing-sender error when it invoked none.
RECURSIVE HTTPInvokeAll(_, _, _, _)
HTTPInvokeAll(h, calls, encErr, err) ==
    IF calls = <<>> THEN [h |-> h, err |-> err]
    ELSE LET r == HTTPInvoke(h, Head(calls), encErr)
         IN HTTPInvokeAll(r.h, Tail(calls), encErr, r.err)

\* SSEResponseSender: both operations push an unnamed event on the session.
SSESendResponse(response) == [type |-> "", data |-> response]
\* A variant of SSESession.sendError that names its event "error".
SSESessionSendError_Named(id, code, message) ==
    [type |-> "error", data |-> Response(id, NoResult, ErrorResponse(code, message))]

SSESessionSendError(id, code, message) ==
    [type |-> "", data |-> Response(id, NoResult, ErrorResponse(code, message))]
SSESendError(id, code, message) == SSESessionSendError(id, code, message)

SSEInvoke(call) ==
    IF call.op = "SendResponse"
    THEN SSESendResponse(call.resp)
    ELSE SSESendError(call.resp.id, call.resp.error.code, call.resp.error.message)

\* StdoutSender: marshal and print one line; nothing is remembered.
StdoutSendResponse(out, response) == [out |-> Append(out, response), err |-> NoErr]
StdoutSendError(out, id, code, message) ==
    StdoutSendResponse(out, Response(id, NoResult, ErrorResponse(code, message)))

StdoutInvoke(out, call) ==
    IF call.op = "SendResponse"
    THEN StdoutSendResponse(out, call.resp)
    ELSE StdoutSendError(out, call.resp.id, call.resp.error.code, call.resp.error.message)

RECURSIVE StdoutInvokeAll(_, _, _)
StdoutInvokeAll(out, calls, err) ==
    IF calls = <<>> THEN [out |-> out, err |-> err]
    ELSE LET r == StdoutInvoke(out, Head(calls))
         IN StdoutInvokeAll(r.out, Tail(calls), r.err)

(***************************************************************************)
(* HTTP transport: POST /mcp.                                              *)
(***************************************************************************)
\* HTTPTransport.sendError: a 400 reply with a JSON-RPC error body.
TransportSendError(id, code, message) ==
    JSONReply(400, Response(id, NoResult, ErrorResponse(code, message)))

\* Accept headers, by the media types strings.Contains finds in them.
Accepts == SUBSET {"application/json", "text/event-stream"}

\* Request bodies a client posts.
WireCalls == {
    [method |-> "ping", params |-> NilParams],
    [method |-> "tools/call",
     params |-> ObjParams(Str("getDrinkInfo"), Absent, ObjArgs(Str("Latte")))] }
WireBodies == { Request(v, c.method, id, c.params) :
                  v \in {JSONRPCVersion, "1.0"}, c \in WireCalls, id \in IDs \cup {NilID} }
\* What a body that failed to decode leaves in req.
Undecoded == Request("", "", NilID, NilParams)

\* A variant of handlePost without the notification test.
PostRoute_NoNotificationTest(decoded, body, accept) ==
    IF ~decoded THEN "parse-error"
    ELSE IF accept = {} THEN "bad-accept"
    ELSE IF body.jsonrpc # JSONRPCVersion THEN "bad-version"
    ELSE IF "text/event-stream" \in accept THEN "sse"
    ELSE "json"

\* A variant of handlePost without the Accept check.
PostRoute_AnyAccept(decoded, body, accept) ==
    IF ~decoded THEN "parse-error"
    ELSE IF body.jsonrpc # JSONRPCVersion THEN "bad-version"
    ELSE IF body.id = NilID THEN "notification"
    ELSE IF "text/event-stream" \in accept /\ body.id # NilID THEN "sse"
    ELSE "json"

\* A variant of handlePost that answers directly whenever the client accepts
\* application/json.
PostRoute_PreferJSON(decoded, body, accept) ==
    IF ~decoded THEN "parse-error"
    ELSE IF accept = {} THEN "bad-accept"
    ELSE IF body.jsonrpc # JSONRPCVersion THEN "bad-version"
    ELSE IF body.id = NilID THEN "notification"
    ELSE IF "application/json" \notin accept THEN "sse"
    ELSE "json"

\* handlePost: which way a POST goes.
PostRoute(decoded, body, accept) ==
    LET wantsSSE == "text/event-stream" \in accept
        wantsJSON == "application/json" \in accept
    IN IF ~decoded THEN "parse-error"
       ELSE IF ~wantsJSON /\ ~wantsSSE THEN "bad-accept"
       ELSE IF body.jsonrpc # JSONRPCVersion THEN "bad-version"
       ELSE IF body.id = NilID THEN "notification"
       ELSE IF wantsSSE /\ body.id # NilID THEN "sse"
       ELSE "json"

\* handleJSONRequest: everything written to w for one request.
handleJSONRequest(body, expired, encErr) ==
    LET calls == HandleRequest(TRUE, "coffee", expired, body).sends
        r == HTTPInvokeAll(NewHTTPSender, calls, encErr, NoSenderErr)
    IN IF r.err # NoErr
       THEN IF ~r.h.sent
            THEN Append(r.h.out,
                        TransportSendError(body.id, ErrorCodeInternalError, "Internal error"))
            ELSE r.h.out
       ELSE IF ~r.h.sent
            THEN Append(r.h.out,
                        TransportSendError(body.id, ErrorCodeInternalError,
                                           "No response generated"))
            ELSE r.h.out

\* handlePost, for a POST that opens no stream: everything written to w.
PostReply(route, body, expired, encErr) ==
    CASE route = "parse-error" ->
             <<TransportSendError("-1", ErrorCodeParseError, "Parse error")>>
      [] route = "bad-accept" ->
             <<TransportSendError(body.id, ErrorCodeInvalidRequest,
                   "Accept header must include application/json and/or text/event-stream")>>
      [] route = "bad-version" ->
             <<TransportSendError(body.id, ErrorCodeInvalidRequest,
                                  "Invalid JSON-RPC version")>>
      [] route = "notification" -> <<StatusOnly(204)>>
      [] route = "json" -> handleJSONRequest(body, expired, encErr)

\* The context handleJSONRequest and handleSSERequest dispatch under:
\* context.WithTimeout(ctx, t.config.RequestTimeout), in seconds.
RequestTimeout == 30

\* One server.HandleRequest call: the sender put into its context, the
\* session that sender pushes to (none for the direct writer), the request
\* and the timeout of the context.
Dispatching(sender, session, body) ==
    [sender |-> sender, session |-> session, body |-> body, timeout |-> RequestTimeout]

\* handlePost, for a POST that opens no stream: the server.HandleRequest
\* calls it makes (one, by handleJSONRequest, with a fresh HTTPResponseSender).
PostDispatches(route, body) ==
    IF route = "json" THEN <<Dispatching("http", "", body)>> ELSE <<>>

\* Encode's outcomes on the response writer.
EncodeErrs == {NoErr, "write: broken pipe"}

Listening == stopPc # "done"
Running == stopPc # "done"

\* A POST served without opening a stream, with one of the given bodies:
\* one task, start to end.
HandlePostOf(t, bodies) ==
    /\ mode = "http" /\ Listening /\ pc[t] = "idle"
    /\ \E decoded \in BOOLEAN, b \in bodies, accept \in Accepts,
          expired \in BOOLEAN, encErr \in EncodeErrs :
         LET body == IF decoded THEN b ELSE Undecoded
             route == PostRoute(decoded, body, accept)
         IN /\ route # "sse"
            /\ route # "json" => (~expired /\ encErr = NoErr)
            /\ decoded \/ accept = {}
            /\ req' = [req EXCEPT ![t] = [verb |-> "POST", route |-> route, body |-> body,
                                          accept |-> accept, lastEventID |-> <<>>]]
            /\ w' = [w EXCEPT ![t] = PostReply(route, body, expired, encErr)]
            /\ dispatches' = [dispatches EXCEPT ![t] = PostDispatches(route, body)]
            /\ pc' = [pc EXCEPT ![t] = "done"]
    /\ UNCHANGED <<mode, conn, flushes, ctxDone, spc, ev, cur, todo, ret, sess, smu, sessions, tmu, now,
                   stopPc, stopLeft, stdioVars, harnessVars>>

HandlePost(t) == HandlePostOf(t, WireBodies)

(***************************************************************************)
(* HTTP transport: SSE streams.                                            *)
(***************************************************************************)
\* Last-Event-ID headers the clients of the transport runs send.
WireLastEventIDs == {<<>>, <<"2">>}

\* The payload of the handshake event.
Connected(sessionID) == [sessionId |-> sessionID]

\* json.Marshal writes no raw newline, so splitting the payload on "\n"
\* yields the payload as its one fragment.
Fragments(data) == <<data>>

\* A variant of the transport without its registry mutex.
CanLockRegistry_NoMutex == TRUE

\* t.mu.Lock() returns only when nobody holds the registry's mutex.
CanLockRegistry == tmu = Free

\* startSSEStream up to t.mu.Lock(): the session is made from the request's
\* headers, and the task takes the registry lock (it waits while Stop or
\* another task holds it).
startSSEStream(t, request, sessionHeader) ==
    LET sessionID == SessionIDFor(sessionHeader, now)
    IN /\ CanLockRegistry
       /\ tmu' = t
       /\ req' = [req EXCEPT ![t] = request]
       /\ sess' = [sess EXCEPT ![t] = [ID |-> sessionID,
                                       eventID |-> SeedEventID(request.lastEventID),
                                       closed |-> FALSE, made |-> TRUE]]
       /\ now' = IF sessionHeader = "" THEN now + 1 ELSE now
       /\ pc' = [pc EXCEPT ![t] = "store"]
       /\ spc' = [spc EXCEPT ![t] = "lock"]
       /\ cur' = [cur EXCEPT ![t] = t]
       /\ ev' = [ev EXCEPT ![t] = [type |-> "connected", data |-> Connected(sessionID)]]
       /\ UNCHANGED sessions

\* A variant of startSSEStream that returns the session without the
\* handshake event.
Store_NoHandshake(t) ==
    /\ Running /\ pc[t] = "store"
    /\ sessions' = Put(sessions, sess[t].ID, t)
    /\ tmu' = Free
    /\ pc' = [pc EXCEPT ![t] = IF req[t].verb = "GET" THEN "wait" ELSE "dispatch"]
    /\ UNCHANGED <<mode, conn, flushes, ctxDone, spc, req, ev, cur, todo, ret, dispatches, w, sess, smu, now,
                   stopPc, stopLeft, stdioVars, harnessVars>>

\* startSSEStream: t.sessions[sessionID] = session, t.mu.Unlock(); the
\* handshake event is due next.
Store(t) ==
    /\ Running /\ pc[t] = "store"
    /\ sessions' = Put(sessions, sess[t].ID, t)
    /\ tmu' = Free
    /\ pc' = [pc EXCEPT ![t] = "connected"]
    /\ UNCHANGED <<mode, conn, flushes, ctxDone, spc, req, ev, cur, todo, ret, dispatches, w, sess, smu, now,
                   stopPc, stopLeft, stdioVars, harnessVars>>

\* GET /mcp: handleGet opens a stream, for a request with one of the given
\* Last-Event-ID and Mcp-Session-Id headers.
HandleGetOf(t, heads, sids) ==
    /\ mode = "http" /\ Listening /\ pc[t] = "idle"
    /\ \E h \in heads, sid \in sids :
         startSSEStream(t, [verb |-> "GET", route |-> "stream", body |-> Undecoded,
                            lastEventID |-> h], sid)
    /\ UNCHANGED <<mode, conn, flushes, ctxDone, todo, ret, dispatches, w, smu, stopPc, stopLeft,
                   stdioVars, harnessVars>>

HandleGet(t) == HandleGetOf(t, WireLastEventIDs, ClientSessionIDs)

\* POST /mcp negotiated as SSE: handleSSERequest opens a stream, for a
\* request with one of the given bodies and headers.
HandlePostSSEOf(t, bodies, heads, sids) ==
    /\ mode = "http" /\ Listening /\ pc[t] = "idle"
    /\ \E b \in bodies, accept \in Accepts, h \in heads, sid \in sids :
         /\ PostRoute(TRUE, b, accept) = "sse"
         /\ startSSEStream(t, [verb |-> "POST", route |-> "sse", body |-> b,
                               accept |-> accept, lastEventID |-> h], sid)
    /\ UNCHANGED <<mode, conn, flushes, ctxDone, todo, ret, dispatches, w, smu, stopPc, stopLeft,
                   stdioVars, harnessVars>>

\* Clients send Last-Event-ID when they reopen a stream with GET; the POSTs
\* of the transport runs carry none.
HandlePostSSE(t) == HandlePostSSEOf(t, WireBodies, {<<>>}, ClientSessionIDs)

\* SSESession.sendEvent, in the steps another task can come between.
InSend(t) == pc[t] \in {"connected", "respond", "fallback", "call"}

\* A variant of the session without its mutex.
CanLock_NoMutex(s) == TRUE

\* s.mu.Lock() returns only when nobody holds the session's mutex.
CanLock(s) == smu[s] = Free

\* What the caller does once sendEvent has returned err.
AfterSend(t, err) ==
    CASE pc[t] = "connected" ->
             \* startSSEStream ignores the result and returns the session
             /\ pc' = [pc EXCEPT ![t] = IF req[t].verb = "GET" THEN "wait" ELSE "dispatch"]
             /\ UNCHANGED <<ev, todo, spc>>
             /\ ret' = [ret EXCEPT ![t] = err]
      [] pc[t] = "respond" ->
             \* inside HandleRequest: the next sender operation, or return
             IF todo[t] # <<>>
             THEN /\ ev' = [ev EXCEPT ![t] = SSEInvoke(Head(todo[t]))]
                  /\ todo' = [todo EXCEPT ![t] = Tail(todo[t])]
                  /\ spc' = [spc EXCEPT ![t] = "lock"]
                  /\ ret' = [ret EXCEPT ![t] = err]
                  /\ UNCHANGED pc
             ELSE IF err # NoErr
             THEN \* handleSSERequest reports the error on the session itself
                  /\ pc' = [pc EXCEPT ![t] = "fallback"]
                  /\ ev' = [ev EXCEPT ![t] =
                              SSESessionSendError(req[t].body.id, ErrorCodeInternalError,
                                                  "Internal error")]
                  /\ spc' = [spc EXCEPT ![t] = "lock"]
                  /\ ret' = [ret EXCEPT ![t] = err]
                  /\ UNCHANGED todo
             ELSE /\ pc' = [pc EXCEPT ![t] = "done"]
                  /\ ret' = [ret EXCEPT ![t] = err]
                  /\ UNCHANGED <<ev, todo, spc>>
      [] pc[t] = "fallback" ->
             /\ pc' = [pc EXCEPT ![t] = "done"]
             /\ ret' = [ret EXCEPT ![t] = err]
             /\ UNCHANGED <<ev, todo, spc>>
      [] pc[t] = "call" ->
             \* a harness caller: the call and its result are logged
             /\ pc' = [pc EXCEPT ![t] = "ready"]
             /\ ret' = [ret EXCEPT ![t] = err]
             /\ UNCHANGED <<ev, todo, spc>>

\* A variant of sendEvent that does not test s.closed.
Rejected_Never(s) == FALSE

\* sendEvent's test of s.closed, made with s.mu held.
Rejected(s) == sess[s].closed

\* s.mu.Lock(); if s.closed return an error (the deferred Unlock runs).
SendLock(t) ==
    LET s == cur[t]
    IN /\ Running /\ InSend(t) /\ spc[t] = "lock"
       /\ CanLock(s)
       /\ IF Rejected(s)
          THEN /\ AfterSend(t, "session closed")
               /\ UNCHANGED smu
          ELSE /\ smu' = [smu EXCEPT ![s] = t]
               /\ spc' = [spc EXCEPT ![t] = "head"]
               /\ UNCHANGED <<pc, ev, todo, ret>>
       /\ UNCHANGED <<mode, conn, flushes, ctxDone, req, cur, dispatches, w, sess, sessions, tmu, now,
                      stopPc, stopLeft, stdioVars, harnessVars>>

\* The id line, and the event line of a named event.
SendHead(t) ==
    LET s == cur[t]
    IN /\ Running /\ InSend(t) /\ spc[t] = "head"
       /\ w' = [w EXCEPT ![s] = w[s] \o <<IdLine(sess[s].eventID)>>
                                  \o (IF ev[t].type # "" THEN <<EventLine(ev[t].type)>>
                                      ELSE <<>>)]
       /\ spc' = [spc EXCEPT ![t] = "data"]
       /\ UNCHANGED <<mode, conn, flushes, ctxDone, pc, req, ev, cur, todo, ret, dispatches, sess, smu, sessions, tmu,
                      now, stopPc, stopLeft, stdioVars, harnessVars>>

\* One data line per fragment of the payload, then the blank line.
SendData(t) ==
    LET s == cur[t]
        fs == Fragments(ev[t].data)
    IN /\ Running /\ InSend(t) /\ spc[t] = "data"
       /\ w' = [w EXCEPT ![s] = w[s] \o [i \in 1..Len(fs) |-> DataLine(fs[i])]
                                  \o <<BlankLine>>]
       /\ spc' = [spc EXCEPT ![t] = "flush"]
       /\ UNCHANGED <<mode, conn, flushes, ctxDone, pc, req, ev, cur, todo, ret, dispatches, sess, smu, sessions, tmu,
                      now, stopPc, stopLeft, stdioVars, harnessVars>>

\* A variant of sendEvent that returns with s.mu still held.
SendFlush_NoUnlock(t) ==
    LET s == cur[t]
    IN /\ Running /\ InSend(t) /\ spc[t] = "flush"
       /\ flushes' = [flushes EXCEPT ![s] = @ + 1]
       /\ sess' = [sess EXCEPT ![s].eventID = @ + 1]
       /\ AfterSend(t, NoErr)
       /\ UNCHANGED <<mode, conn, ctxDone, req, cur, dispatches, w, smu, sessions, tmu, now,
                      stopPc, stopLeft, stdioVars, harnessVars>>

\* Flush, s.eventID++, return nil (the deferred Unlock runs).
SendFlush(t) ==
    LET s == cur[t]
    IN /\ Running /\ InSend(t) /\ spc[t] = "flush"
       /\ flushes' = [flushes EXCEPT ![s] = @ + 1]
       /\ sess' = [sess EXCEPT ![s].eventID = @ + 1]
       /\ smu' = [smu EXCEPT ![s] = Free]
       /\ AfterSend(t, NoErr)
       /\ UNCHANGED <<mode, conn, ctxDone, req, cur, dispatches, w, sessions, tmu, now, stopPc,
                      stopLeft, stdioVars, harnessVars>>

\* handleSSERequest calls server.HandleRequest with an SSEResponseSender.
Dispatch(t) ==
    /\ Running /\ pc[t] = "dispatch"
    /\ \E expired \in BOOLEAN :
         LET calls == HandleRequest(TRUE, "coffee", expired, req[t].body).sends
         IN IF calls = <<>>
            THEN /\ pc' = [pc EXCEPT ![t] = "fallback"]
                 /\ ev' = [ev EXCEPT ![t] =
                             SSESessionSendError(req[t].body.id, ErrorCodeInternalError,
                                                 "Internal error")]
                 /\ ret' = [ret EXCEPT ![t] = NoSenderErr]
                 /\ UNCHANGED todo
            ELSE /\ pc' = [pc EXCEPT ![t] = "respond"]
                 /\ ev' = [ev EXCEPT ![t] = SSEInvoke(Head(calls))]
                 /\ todo' = [todo EXCEPT ![t] = Tail(calls)]
                 /\ UNCHANGED ret
    /\ dispatches' = [dispatches EXCEPT ![t] =
                        Append(@, Dispatching("sse", sess[t].ID, req[t].body))]
    /\ spc' = [spc EXCEPT ![t] = "lock"]
    /\ UNCHANGED <<mode, conn, flushes, ctxDone, req, cur, w, sess, smu, sessions, tmu, now, stopPc,
                   stopLeft, stdioVars, harnessVars>>

\* handleGet past <-ctx.Done(): t.mu.Lock().
GetTeardownLock(t) ==
    /\ Running /\ pc[t] = "wait" /\ ctxDone
    /\ CanLockRegistry
    /\ tmu' = t
    /\ pc' = [pc EXCEPT ![t] = "delete"]
    /\ UNCHANGED <<mode, conn, flushes, ctxDone, spc, req, ev, cur, todo, ret, dispatches, w, sess, smu, sessions, now,
                   stopPc, stopLeft, stdioVars, harnessVars>>

\* A variant of handleGet that returns with t.mu still held.
GetTeardown_NoUnlock(t) ==
    /\ Running /\ pc[t] = "delete"
    /\ sessions' = Delete(sessions, sess[t].ID)
    /\ pc' = [pc EXCEPT ![t] = "done"]
    /\ UNCHANGED <<mode, conn, flushes, ctxDone, spc, req, ev, cur, todo, ret, dispatches, w, sess, smu, tmu, now,
                   stopPc, stopLeft, stdioVars, harnessVars>>

\* handleGet: delete(t.sessions, session.ID), t.mu.Unlock(), return.
GetTeardown(t) ==
    /\ Running /\ pc[t] = "delete"
    /\ sessions' = Delete(sessions, sess[t].ID)
    /\ tmu' = Free
    /\ pc' = [pc EXCEPT ![t] = "done"]
    /\ UNCHANGED <<mode, conn, flushes, ctxDone, spc, req, ev, cur, todo, ret, dispatches, w, sess, smu, now,
                   stopPc, stopLeft, stdioVars, harnessVars>>

(***************************************************************************)
(* HTTP transport: Start and Stop.                                         *)
(***************************************************************************)
\* The signal handler of run() cancels the root context.
Cancel ==
    /\ mode \in {"http", "stdio"} /\ ~ctxDone
    /\ ctxDone' = TRUE
    /\ UNCHANGED <<mode, conn, flushes, httpVars, stdioVars, harnessVars>>

\* Start, past <-ctx.Done(), calls Stop: t.mu.Lock() and the range begins.
StopLock ==
    /\ mode = "http" /\ ctxDone /\ stopPc = "wait"
    /\ CanLockRegistry
    /\ tmu' = Stopper
    /\ stopLeft' = Registered
    /\ stopPc' = "closing"
    /\ UNCHANGED <<mode, conn, flushes, ctxDone, pc, spc, req, ev, cur, todo, ret, dispatches, w, sess, smu, sessions,
                   now, stdioVars, harnessVars>>

\* SSESession.close under s.mu.
close(s) ==
    /\ CanLock(s)
    /\ sess' = [sess EXCEPT ![s].closed = TRUE]

\* One iteration of Stop's range over the registry (map order is arbitrary).
StopClose ==
    /\ mode = "http" /\ stopPc = "closing"
    /\ \E s \in stopLeft :
         /\ close(s)
         /\ stopLeft' = stopLeft \ {s}
    /\ UNCHANGED <<mode, conn, flushes, ctxDone, pc, spc, req, ev, cur, todo, ret, dispatches, w, smu, sessions, tmu,
                   now, stopPc, stdioVars, harnessVars>>

\* A variant of Stop that leaves the range after its first iteration.
StopClear_AfterFirst ==
    /\ mode = "http" /\ stopPc = "closing" /\ Cardinality(stopLeft) <= 1
    /\ sessions' = EmptyRegistry
    /\ tmu' = Free
    /\ stopPc' = "shutdown"
    /\ UNCHANGED <<mode, conn, flushes, ctxDone, pc, spc, req, ev, cur, todo, ret, dispatches, w, sess, smu, now,
                   stopLeft, stdioVars, harnessVars>>

\* The range is over: the registry is replaced and t.mu released; Stop goes
\* on to server.Shutdown.
StopClear ==
    /\ mode = "http" /\ stopPc = "closing" /\ stopLeft = {}
    /\ sessions' = EmptyRegistry
    /\ tmu' = Free
    /\ stopPc' = "shutdown"
    /\ UNCHANGED <<mode, conn, flushes, ctxDone, pc, spc, req, ev, cur, todo, ret, dispatches, w, sess, smu, now,
                   stopLeft, stdioVars, harnessVars>>

\* Handlers that server.Shutdown outwaits: they stand at steps on memory
\* alone (the registry's critical sections, the wait on the context that is
\* cancelled by now), which ShutdownTimeout cannot cut short.  A handler
\* inside HandleRequest or at a write to its connection may take longer
\* than the timeout.
Prompt(t) == pc[t] \in {"store", "wait", "delete"}

\* server.Shutdown returns (the handlers are idle, or ShutdownTimeout is
\* over), Start returns and the process exits with whatever is in flight.
Shutdown ==
    /\ mode = "http" /\ stopPc = "shutdown"
    /\ \A t \in Tasks : ~Prompt(t)
    /\ stopPc' = "done"
    /\ UNCHANGED <<mode, conn, flushes, ctxDone, pc, spc, req, ev, cur, todo, ret, dispatches, w, sess, smu, sessions,
                   tmu, now, stopLeft, stdioVars, harnessVars>>

(***************************************************************************)
(* Stdio transport.  A line of input is blank, text that is not well-formed *)
(* JSON ("garbage": say a request cut short, whose text may still hold an  *)
(* id member), a JSON object some field of which has the wrong type for    *)
(* Request ("mistyped": it decodes into a map, not into Request), or a    *)
(* JSON object that decodes into Request.  body.id is the id member the    *)
(* line's text holds, NilID when it holds none or null.                    *)
(***************************************************************************)
StdioLines ==
    {[kind |-> "blank", body |-> Undecoded]}
    \cup {[kind |-> "garbage", body |-> Request("", "", id, NilParams)] :
            id \in IDs \cup {NilID}}
    \cup {[kind |-> "mistyped", body |-> Request(JSONRPCVersion, "", id, NilParams)] :
            id \in IDs \cup {NilID}}
    \cup {[kind |-> "request", body |-> b] : b \in WireBodies}

NoLine == [kind |-> "none", body |-> Undecoded]

\* Stdio.sendParseError: the id is taken from the line when the line decodes
\* into a map and holds a non-null id; the response is printed.
sendParseError(out, line) ==
    LET errorID == IF line.kind = "mistyped" /\ line.body.id # NilID
                   THEN line.body.id
                   ELSE "-1"
    IN [out |-> Append(out, Response(errorID, NoResult,
                                     ErrorResponse(ErrorCodeParseError, "Parse error"))),
        err |-> NoErr, dispatched |-> FALSE]

\* A variant of handleMessage that answers a version mismatch the way the
\* HTTP transport does.
handleMessage_AnswerVersion(out, line, expired) ==
    IF line.kind # "request" THEN sendParseError(out, line)
    ELSE IF line.body.jsonrpc # JSONRPCVersion
    THEN StdoutInvoke(out, SendErrorCall(line.body.id, ErrorCodeInvalidRequest,
                                         "Invalid JSON-RPC version"))
            @@ [dispatched |-> FALSE]
    ELSE IF line.body.id = NilID
    THEN [out |-> out, err |-> NoErr, dispatched |-> FALSE]
    ELSE LET calls == HandleRequest(TRUE, "coffee", expired, line.body).sends
             r == StdoutInvokeAll(out, calls, NoSenderErr)
         IN [out |-> r.out, err |-> r.err, dispatched |-> TRUE]

\* Stdio.handleMessage for one non-blank line.
handleMessage(out, line, expired) ==
    IF line.kind # "request" THEN sendParseError(out, line)
    ELSE IF line.body.jsonrpc # JSONRPCVersion
    THEN [out |-> out, err |-> NoErr, dispatched |-> FALSE]
    ELSE IF line.body.id = NilID
    THEN [out |-> out, err |-> NoErr, dispatched |-> FALSE]
    ELSE LET calls == HandleRequest(TRUE, "coffee", expired, line.body).sends
             r == StdoutInvokeAll(out, calls, NoSenderErr)
         IN [out |-> r.out, err |-> r.err, dispatched |-> TRUE]

\* The process lives until Start returns.
StdioRunning == mode = "stdio" /\ lpc \in {"select", "handle"}

\* A variant of Start whose loop takes the next line while handleMessage is
\* still at work (as if it ran in a goroutine of its own).
LoopWaiting_Concurrent == lpc \in {"select", "handle"}

\* The dispatch loop is at its select: handleMessage is called in the loop
\* itself, so the loop is back there only when the call has returned.
LoopWaiting == lpc = "select"

\* Reader goroutine: scanner.Scan() yields one of the given lines, ends the
\* input, or fails.
ReaderScanOf(lines) ==
    /\ StdioRunning /\ rpc = "scan"
    /\ \/ /\ nread < MaxLines
          /\ \E line \in lines : rline' = line
          /\ nread' = nread + 1
          /\ scanned' = Append(scanned, rline')
          /\ rpc' = "send"
       \/ /\ rpc' = "closing"
          /\ UNCHANGED <<rline, nread, scanned>>
       \/ /\ rpc' = "senderr"
          /\ UNCHANGED <<rline, nread, scanned>>
    /\ UNCHANGED <<mode, conn, flushes, ctxDone, httpVars, chClosed, lpc, stdout, handled, harnessVars>>

ReaderScan == ReaderScanOf(StdioLines)

\* Reader goroutine: <-ctx.Done() in either select; the function returns.
ReaderCtxDone ==
    /\ StdioRunning /\ rpc \in {"send", "senderr"} /\ ctxDone
    /\ rpc' = "closing"
    /\ UNCHANGED <<mode, conn, flushes, ctxDone, httpVars, rline, nread, scanned, chClosed, lpc, stdout, handled,
                   harnessVars>>

\* A variant of the reader that gives up a line the loop has not taken yet
\* (as if its select had a default case) and closes.
ReaderClose_DropsPending ==
    /\ StdioRunning /\ rpc \in {"closing", "send"}
    /\ IF "errChan" \notin chClosed
       THEN /\ chClosed' = chClosed \cup {"errChan"}
            /\ rpc' = "closing"
       ELSE /\ chClosed' = chClosed \cup {"lineChan"}
            /\ rpc' = "closed"
    /\ UNCHANGED <<mode, conn, flushes, ctxDone, httpVars, rline, nread, scanned, lpc, stdout,
                   handled, harnessVars>>

\* Reader goroutine: the deferred close(errChan), then close(lineChan).
ReaderClose ==
    /\ StdioRunning /\ rpc = "closing"
    /\ IF "errChan" \notin chClosed
       THEN /\ chClosed' = chClosed \cup {"errChan"}
            /\ UNCHANGED rpc
       ELSE /\ chClosed' = chClosed \cup {"lineChan"}
            /\ rpc' = "closed"
    /\ UNCHANGED <<mode, conn, flushes, ctxDone, httpVars, rline, nread, scanned, lpc, stdout, handled, harnessVars>>

\* Dispatch loop: case <-ctx.Done().
LoopCtxDone ==
    /\ StdioRunning /\ LoopWaiting /\ ctxDone
    /\ lpc' = "returned nil"
    /\ UNCHANGED <<mode, conn, flushes, ctxDone, httpVars, rpc, rline, nread, scanned, chClosed, stdout, handled,
                   harnessVars>>

\* A variant of Start that reports the end of input as an error.
LoopErr_ClosedIsError ==
    /\ StdioRunning /\ LoopWaiting
    /\ \/ /\ rpc = "senderr"
          /\ rpc' = "closing"
          /\ lpc' = "returned err"
       \/ /\ "errChan" \in chClosed
          /\ lpc' = "returned err"
          /\ UNCHANGED rpc
    /\ UNCHANGED <<mode, conn, flushes, ctxDone, httpVars, rline, nread, scanned, chClosed, stdout, handled,
                   harnessVars>>

\* Dispatch loop: case err := <-errChan, from the reader or from the closed
\* channel (then err is nil).
LoopErr ==
    /\ StdioRunning /\ LoopWaiting
    /\ \/ /\ rpc = "senderr"
          /\ rpc' = "closing"
          /\ lpc' = "returned err"
       \/ /\ "errChan" \in chClosed
          /\ lpc' = "returned nil"
          /\ UNCHANGED rpc
    /\ UNCHANGED <<mode, conn, flushes, ctxDone, httpVars, rline, nread, scanned, chClosed, stdout, handled,
                   harnessVars>>

\* A variant of the loop without the test for a blank line.
LoopLine_HandlesBlank ==
    /\ StdioRunning /\ LoopWaiting /\ rpc = "send"
    /\ rpc' = "scan"
    /\ handled' = Append(handled,
                         [kind |-> rline.kind, body |-> rline.body,
                          dispatched |-> handleMessage(stdout, rline, FALSE).dispatched])
    /\ lpc' = "handle"
    /\ UNCHANGED <<mode, conn, flushes, ctxDone, httpVars, rline, nread, scanned, chClosed,
                   stdout, harnessVars>>

\* Dispatch loop: case line, ok := <-lineChan, the reader handing over a line;
\* a blank line is skipped, any other goes to handleMessage.
LoopLine ==
    /\ StdioRunning /\ LoopWaiting /\ rpc = "send"
    /\ rpc' = "scan"
    /\ handled' = Append(handled,
                         [kind |-> rline.kind, body |-> rline.body,
                          dispatched |-> IF rline.kind = "blank" THEN FALSE
                                         ELSE handleMessage(stdout, rline, FALSE).dispatched])
    /\ lpc' = IF rline.kind = "blank" THEN "select" ELSE "handle"
    /\ UNCHANGED <<mode, conn, flushes, ctxDone, httpVars, rline, nread, scanned, chClosed, stdout, harnessVars>>

\* Dispatch loop: handleMessage works on the line received last and returns;
\* its error is logged and the loop is back at its select.
LoopHandle ==
    /\ mode = "stdio" /\ lpc = "handle"
    /\ \E expired \in BOOLEAN :
         stdout' = handleMessage(stdout, handled[Len(handled)], expired).out
    /\ lpc' = "select"
    /\ UNCHANGED <<mode, conn, flushes, ctxDone, httpVars, rpc, rline, nread, scanned, chClosed, handled,
                   harnessVars>>

\* Dispatch loop: case line, ok := <-lineChan with the channel closed.
LoopLineClosed ==
    /\ StdioRunning /\ LoopWaiting /\ "lineChan" \in chClosed
    /\ lpc' = "returned nil"
    /\ UNCHANGED <<mode, conn, flushes, ctxDone, httpVars, rpc, rline, nread, scanned, chClosed, stdout, handled,
                   harnessVars>>

StdioNext ==
    \/ ReaderScan
    \/ ReaderCtxDone
    \/ ReaderClose
    \/ LoopCtxDone
    \/ LoopErr
    \/ LoopLine
    \/ LoopHandle
    \/ LoopLineClosed

(***************************************************************************)
(* The program.                                                            *)
(***************************************************************************)
InitTransport ==
    /\ pc = [t \in Tasks |-> "idle"]
    /\ spc = [t \in Tasks |-> "lock"]
    /\ ev = [t \in Tasks |-> NoEvent]
    /\ cur = [t \in Tasks |-> t]
    /\ todo = [t \in Tasks |-> <<>>]
    /\ ret = [t \in Tasks |-> NoErr]
    /\ dispatches = [t \in Tasks |-> <<>>]
    /\ w = [t \in Tasks |-> <<>>]
    /\ conn = [t \in Tasks |-> "up"]
    /\ flushes = [t \in Tasks |-> 0]
    /\ sess = [t \in Tasks |-> NoSession]
    /\ smu = [t \in Tasks |-> Free]
    /\ sessions = EmptyRegistry
    /\ tmu = Free
    /\ now = 1
    /\ stopPc = "wait"
    /\ stopLeft = {}

InitHTTPVars ==
    /\ InitTransport
    /\ req = [t \in Tasks |-> NoRequest]

InitStdioVars ==
    /\ rpc = "scan"
    /\ rline = NoLine
    /\ nread = 0
    /\ scanned = <<>>
    /\ chClosed = {}
    /\ lpc = "select"
    /\ stdout = <<>>
    /\ handled = <<>>

InitHarnessVars ==
    /\ hs = NewHTTPSender
    /\ log = <<>>
    /\ invoked = <<>>

\* createTransport: the configuration selects one transport.
Init ==
    /\ mode \in {"http", "stdio"}
    /\ ctxDone = FALSE
    /\ InitHTTPVars /\ InitStdioVars /\ InitHarnessVars

HTTPNext ==
    \/ \E t \in Tasks : HandlePost(t)
    \/ \E t \in Tasks : HandleGet(t)
    \/ \E t \in Tasks : HandlePostSSE(t)
    \/ \E t \in Tasks : Store(t)
    \/ \E t \in Tasks : SendLock(t)
    \/ \E t \in Tasks : SendHead(t)
    \/ \E t \in Tasks : SendData(t)
    \/ \E t \in Tasks : SendFlush(t)
    \/ \E t \in Tasks : Dispatch(t)
    \/ \E t \in Tasks : GetTeardownLock(t)
    \/ \E t \in Tasks : GetTeardown(t)
    \/ StopLock
    \/ StopClose
    \/ StopClear
    \/ Shutdown

Next ==
    \/ Cancel
    \/ HTTPNext
    \/ StdioNext

Spec == Init /\ [][Next]_vars

\* The stdio transport on its own.
StdioOnlyNext ==
    \/ Cancel
    \/ StdioNext

SpecStdio == Init /\ [][StdioOnlyNext]_vars

(***************************************************************************)
(* Shutdown on its own: the two transports serving one kind of GET, one    *)
(* POST over SSE and two kinds of input line, under fair scheduling.       *)
(***************************************************************************)
ShutdownBodies == {Request(JSONRPCVersion, "ping", "1", NilParams)}
ShutdownLines == {[kind |-> "blank", body |-> Undecoded]}
                 \cup {[kind |-> "request", body |-> b] : b \in ShutdownBodies}

ShutdownNext ==
    \/ Cancel
    \/ \E t \in Tasks : HandleGetOf(t, {<<>>}, ClientSessionIDs)
    \/ \E t \in Tasks : HandlePostSSEOf(t, ShutdownBodies, {<<>>}, {"s1"})
    \/ \E t \in Tasks : Store(t)
    \/ \E t \in Tasks : SendLock(t)
    \/ \E t \in Tasks : SendHead(t)
    \/ \E t \in Tasks : SendData(t)
    \/ \E t \in Tasks : SendFlush(t)
    \/ \E t \in Tasks : Dispatch(t)
    \/ \E t \in Tasks : GetTeardownLock(t)
    \/ \E t \in Tasks : GetTeardown(t)
    \/ StopLock
    \/ StopClose
    \/ StopClear
    \/ Shutdown
    \/ ReaderScanOf(ShutdownLines)
    \/ ReaderCtxDone
    \/ ReaderClose
    \/ LoopCtxDone
    \/ LoopErr
    \/ LoopLine
    \/ LoopHandle
    \/ LoopLineClosed

\* Scheduling: every goroutine that can take a step takes one in the end
\* (a mutex is handed to each waiter in turn; a select with a ready case
\* proceeds).  Requests arrive, the signal comes and input is read or not
\* as the environment pleases.
Fairness ==
    /\ \A t \in Tasks :
          /\ WF_vars(Store(t))
          /\ WF_vars(SendLock(t)) /\ WF_vars(SendHead(t))
          /\ WF_vars(SendData(t)) /\ WF_vars(SendFlush(t))
          /\ WF_vars(Dispatch(t))
          /\ WF_vars(GetTeardownLock(t)) /\ WF_vars(GetTeardown(t))
    /\ WF_vars(StopLock) /\ WF_vars(StopClose) /\ WF_vars(StopClear)
    /\ WF_vars(Shutdown)
    /\ WF_vars(LoopCtxDone) /\ WF_vars(LoopHandle)

SpecShutdown == Init /\ [][ShutdownNext]_vars /\ Fairness

TransportSteps ==
    \/ Cancel
    \/ \E t \in Tasks : Store(t)
    \/ \E t \in Tasks : SendLock(t)
    \/ \E t \in Tasks : SendHead(t)
    \/ \E t \in Tasks : SendData(t)
    \/ \E t \in Tasks : SendFlush(t)
    \/ \E t \in Tasks : Dispatch(t)
    \/ StopLock
    \/ StopClose
    \/ StopClear
    \/ Shutdown
    \/ ReaderCtxDone
    \/ ReaderClose
    \/ LoopCtxDone
    \/ LoopErr
    \/ LoopLine
    \/ LoopHandle
    \/ LoopLineClosed

(***************************************************************************)
(* The dispatcher on its own: one HandleRequest call on any request, with  *)
(* either handler and a sender in any state.  Task 1 is the caller.        *)
(***************************************************************************)
NameValues == {Absent, NonString, Str("getDrinkNames"), Str("getDrinkInfo"),
               Str("drinkDescription"), Str("nope")}
UriValues == {Absent, NonString, Str("menu://app"), Str("menu://other")}
ArgumentValues == {NoArgs, NonObjArgs, ObjArgs(Absent), ObjArgs(NonString),
                   ObjArgs(Str("Latte")), ObjArgs(Str("Tea"))}
ParamValues ==
    {NilParams, ScalarParams}
    \cup {ObjParams(n, Absent, a) : n \in NameValues, a \in ArgumentValues}
    \cup {ObjParams(Absent, u, NoArgs) : u \in UriValues}
Methods == {"initialize", "tools/list", "tools/call", "resources/list", "resources/read",
            "prompts/list", "prompts/get", "ping"}
MethodValues == Methods \cup {"", "tools/unknown"}

InitDispatch ==
    /\ mode = "dispatch"
    /\ ctxDone = FALSE
    /\ InitTransport /\ InitStdioVars
    /\ log = <<>>
    /\ invoked = <<>>
    /\ \E used \in BOOLEAN : hs = [sent |-> used, out |-> <<>>]
    /\ \E m \in MethodValues, p \in ParamValues, id \in IDs \cup {NilID},
          h \in HandlerKinds, expired \in BOOLEAN,
          sender \in {"none", "http", "stdout"} :
         req = [t \in Tasks |->
                  IF t = 1
                  THEN [verb |-> "call", body |-> Request(JSONRPCVersion, m, id, p),
                        handler |-> h, expired |-> expired, sender |-> sender]
                  ELSE NoRequest]

\* The call enters HandleRequest.
DispatchStart ==
    /\ mode = "dispatch" /\ pc[1] = "idle"
    /\ LET served == HandleRequest(req[1].sender # "none", req[1].handler,
                                   req[1].expired, req[1].body)
       IN /\ todo' = [todo EXCEPT ![1] = served.sends]
          /\ invoked' = served.invoked
    /\ ret' = [ret EXCEPT ![1] = NoSenderErr]
    /\ pc' = [pc EXCEPT ![1] = "invoking"]
    /\ UNCHANGED <<mode, conn, flushes, ctxDone, spc, req, ev, cur, dispatches, w, sess, smu, sessions, tmu,
                   now, stopPc, stopLeft, stdioVars, hs, log>>

\* The sender found in the context is invoked.
DispatchInvoke ==
    /\ mode = "dispatch" /\ pc[1] = "invoking" /\ todo[1] # <<>>
    /\ LET call == Head(todo[1])
       IN \/ /\ req[1].sender = "http"
             /\ \E encErr \in EncodeErrs :
                  LET r == HTTPInvoke(hs, call, encErr)
                  IN /\ hs' = r.h
                     /\ ret' = [ret EXCEPT ![1] = r.err]
                     /\ log' = Append(log, [sender |-> "http", op |-> call.op,
                                            id |-> call.resp.id, err |-> r.err])
             /\ UNCHANGED stdout
          \/ /\ req[1].sender = "stdout"
             /\ LET r == StdoutInvoke(stdout, call)
                IN /\ stdout' = r.out
                   /\ ret' = [ret EXCEPT ![1] = r.err]
                   /\ log' = Append(log, [sender |-> "stdout", op |-> call.op,
                                          id |-> call.resp.id, err |-> r.err])
             /\ UNCHANGED hs
    /\ todo' = [todo EXCEPT ![1] = Tail(todo[1])]
    /\ UNCHANGED <<mode, conn, flushes, ctxDone, pc, spc, req, ev, cur, dispatches, w, sess, smu, sessions,
                   tmu, now, stopPc, stopLeft, rpc, rline, nread, scanned, chClosed, lpc, handled,
                   invoked>>

\* HandleRequest returns what its last sender operation returned.
DispatchReturn ==
    /\ mode = "dispatch" /\ pc[1] = "invoking" /\ todo[1] = <<>>
    /\ pc' = [pc EXCEPT ![1] = "returned"]
    /\ UNCHANGED <<mode, conn, flushes, ctxDone, spc, req, ev, cur, todo, ret, dispatches, w, sess, smu, sessions, tmu,
                   now, stopPc, stopLeft, stdioVars, harnessVars>>

DispatchNext ==
    \/ DispatchStart
    \/ DispatchInvoke
    \/ DispatchReturn

SpecDispatch == InitDispatch /\ [][DispatchNext]_vars

(***************************************************************************)
(* The capability operations over stdio: a client that sends any three of  *)
(* the list, call, read and get requests, in any order.                    *)
(***************************************************************************)
CatalogCalls == {
    [method |-> "tools/list", params |-> NilParams],
    [method |-> "tools/call", params |-> ObjParams(Str("getDrinkNames"), Absent, NoArgs)],
    [method |-> "tools/call",
     params |-> ObjParams(Str("getDrinkInfo"), Absent, ObjArgs(Str("Mocha")))],
    [method |-> "resources/list", params |-> NilParams],
    [method |-> "resources/read", params |-> ObjParams(Absent, Str("menu://app"), NoArgs)],
    [method |-> "resources/read", params |-> ObjParams(Absent, Str("menu://other"), NoArgs)],
    [method |-> "prompts/list", params |-> NilParams],
    [method |-> "prompts/get", params |-> ObjParams(Str("drinkDescription"), Absent, NoArgs)] }
CatalogLines ==
    {[kind |-> "request", body |-> Request(JSONRPCVersion, c.method, "1", c.params)] :
        c \in CatalogCalls}

CatalogNext ==
    \/ Cancel
    \/ ReaderScanOf(CatalogLines)
    \/ ReaderCtxDone
    \/ ReaderClose
    \/ LoopCtxDone
    \/ LoopErr
    \/ LoopLine
    \/ LoopHandle
    \/ LoopLineClosed

SpecCatalog == Init /\ [][CatalogNext]_vars

(***************************************************************************)
(* Serving calls: the two transports with clients that call getDrinkInfo   *)
(* for a drink on the menu and for one that is not, and that ping with     *)
(* params the method has no use for, next to the dispatcher runs above.    *)
(***************************************************************************)
ServingBodies ==
    { Request(JSONRPCVersion, "tools/call", "1",
              ObjParams(Str("getDrinkInfo"), Absent, ObjArgs(Str(d)))) : d \in {"Latte", "Tea"} }
    \cup {Request(JSONRPCVersion, "ping", "a", ScalarParams)}
ServingLines == {[kind |-> "request", body |-> b] : b \in ServingBodies}

ServingNext ==
    \/ \E t \in Tasks : HandlePostOf(t, ServingBodies)
    \/ \E t \in Tasks : HandlePostSSEOf(t, ServingBodies, {<<>>}, {""})
    \/ ReaderScanOf(ServingLines)
    \/ TransportSteps
    \/ DispatchNext

SpecServing == (Init \/ InitDispatch) /\ [][ServingNext]_vars


(***************************************************************************)
(* The senders and one SSE session on their own: task 1 opens a stream     *)
(* with GET /mcp, then any task may call the session's SSEResponseSender,  *)
(* an HTTPResponseSender and a StdoutSender, while the session may be      *)
(* closed as Stop closes it.                                               *)
(***************************************************************************)
\* Responses the callers send.
DirectCalls == {SendResponseCall("1", [kind |-> "object", items |-> <<>>]),
                SendErrorCall("1", ErrorCodeInvalidParams, "Tool call failed")}

InitDirect ==
    /\ mode = "direct"
    /\ ctxDone = FALSE
    /\ InitHTTPVars /\ InitStdioVars /\ InitHarnessVars

\* GET /mcp with any Last-Event-ID header.
DirectOpen ==
    /\ mode = "direct" /\ pc[1] = "idle"
    /\ \E h \in LastEventIDs, sid \in ClientSessionIDs \ {""} :
         startSSEStream(1, [verb |-> "GET", route |-> "stream", body |-> Undecoded,
                            lastEventID |-> h], sid)
    /\ UNCHANGED <<mode, conn, flushes, ctxDone, todo, ret, dispatches, w, smu, stopPc, stopLeft,
                   stdioVars, harnessVars>>

Opened == sess[1].made /\ pc[1] \notin {"store", "connected"}
CanCall(t) == Opened /\ pc[t] \in {"idle", "wait", "ready"} /\ Len(log) < MaxCalls

\* A task calls SendResponse or SendError on the session's SSEResponseSender.
DirectCallSSE(t) ==
    /\ mode = "direct" /\ CanCall(t)
    /\ \E call \in DirectCalls :
         /\ ev' = [ev EXCEPT ![t] = SSEInvoke(call)]
         /\ log' = Append(log, [sender |-> "sse", op |-> call.op, id |-> call.resp.id,
                                err |-> NoErr])
    /\ pc' = [pc EXCEPT ![t] = "call"]
    /\ spc' = [spc EXCEPT ![t] = "lock"]
    /\ cur' = [cur EXCEPT ![t] = 1]
    /\ UNCHANGED <<mode, conn, flushes, ctxDone, req, todo, ret, dispatches, w, sess, smu, sessions, tmu,
                   now, stopPc, stopLeft, stdioVars, hs, invoked>>

\* A task calls SendResponse or SendError on the HTTPResponseSender.
DirectCallHTTP(t) ==
    /\ mode = "direct" /\ CanCall(t)
    /\ \E call \in DirectCalls, encErr \in EncodeErrs :
         LET r == HTTPInvoke(hs, call, encErr)
         IN /\ hs' = r.h
            /\ log' = Append(log, [sender |-> "http", op |-> call.op, id |-> call.resp.id,
                                   err |-> r.err])
    /\ UNCHANGED <<mode, conn, flushes, ctxDone, httpVars, stdioVars, invoked>>

\* A task calls SendResponse or SendError on the StdoutSender.
DirectCallStdout(t) ==
    /\ mode = "direct" /\ CanCall(t)
    /\ \E call \in DirectCalls :
         LET r == StdoutInvoke(stdout, call)
         IN /\ stdout' = r.out
            /\ log' = Append(log, [sender |-> "stdout", op |-> call.op,
                                   id |-> call.resp.id, err |-> r.err])
    /\ UNCHANGED <<mode, conn, flushes, ctxDone, httpVars, rpc, rline, nread, scanned, chClosed, lpc, handled, hs,
                   invoked>>

\* session.close(), as Stop calls it.
DirectClose ==
    /\ mode = "direct" /\ sess[1].made /\ ~sess[1].closed
    /\ close(1)
    /\ UNCHANGED <<mode, conn, flushes, ctxDone, pc, spc, req, ev, cur, todo, ret, dispatches, w, smu, sessions, tmu,
                   now, stopPc, stopLeft, stdioVars, harnessVars>>

DirectNext ==
    \/ DirectOpen
    \/ Store(1)
    \/ \E t \in Tasks : DirectCallSSE(t)
    \/ \E t \in Tasks : DirectCallHTTP(t)
    \/ \E t \in Tasks : DirectCallStdout(t)
    \/ DirectClose
    \/ \E t \in Tasks : SendLock(t)
    \/ \E t \in Tasks : SendHead(t)
    \/ \E t \in Tasks : SendData(t)
    \/ \E t \in Tasks : SendFlush(t)

SpecDirect == InitDirect /\ [][DirectNext]_vars

(***************************************************************************)
(* The same, with a client that may go away: from then on every write to   *)
(* the stream fails.  sendEvent discards what fmt.Fprintf returns and      *)
(* Flush returns nothing, so it goes on as before.                         *)
(***************************************************************************)
Disconnect(s) ==
    /\ sess[s].made /\ conn[s] = "up"
    /\ conn' = [conn EXCEPT ![s] = "lost"]
    /\ UNCHANGED <<mode, flushes, ctxDone, pc, spc, req, ev, cur, todo, ret, dispatches, w,
                   sess, smu, sessions, tmu, now, stopPc, stopLeft, stdioVars, harnessVars>>

LossyNext ==
    \/ DirectNext
    \/ Disconnect(1)

SpecLossy == InitDirect /\ [][LossyNext]_vars

(***************************************************************************)
(* Properties.                                                             *)
(***************************************************************************)
\* The JSON-RPC responses among what a response writer received.
IsResponseItem(x) == x.k = "json" \/ (x.k = "data" /\ "jsonrpc" \in DOMAIN x.v)
ResponsesIn(items) ==
    LET rs == SelectSeq(items, IsResponseItem)
    IN [i \in 1..Len(rs) |-> rs[i].v]

\* A decoded request with version "2.0" and an id.
ValidWithID(body) == body.jsonrpc = JSONRPCVersion /\ body.id # NilID

DecodedPost(r) == r.verb = "POST" /\ r.route # "parse-error"

LastHandled == handled[Len(handled)]

\* handleMessage has just returned from the line LastHandled'.
HandledOne == lpc = "handle" /\ lpc' = "select"

\* C1 (as stated): every request with version "2.0" and an id gets exactly
\* one JSON-RPC response, carrying the request's id, on stdio, on a POST
\* answered directly and on a POST answered over SSE: never two, and one once
\* its handler has returned.
C1_ExactlyOneResponse ==
    [][ /\ \A t \in Tasks :
             (DecodedPost(req'[t]) /\ ValidWithID(req'[t].body)) =>
                LET rs == ResponsesIn(w'[t])
                IN /\ Len(rs) <= 1
                   /\ pc'[t] = "done" => (Len(rs) = 1 /\ rs[1].id = req'[t].body.id)
        /\ (HandledOne /\ LastHandled'.kind = "request" /\ ValidWithID(LastHandled'.body)) =>
                /\ Len(stdout') = Len(stdout) + 1
                /\ stdout'[Len(stdout')].id = LastHandled'.body.id
        /\ ~HandledOne => stdout' = stdout
      ]_vars

\* C1 (amended): as C1, except that a POST answered over SSE gets no response
\* when its session was marked closed before the response was written: then
\* the send and the transport's fallback error are both rejected.
C1_OneResponseUnlessSessionClosed ==
    [][ /\ \A t \in Tasks :
             (DecodedPost(req'[t]) /\ ValidWithID(req'[t].body)) =>
                LET rs == ResponsesIn(w'[t])
                IN /\ Len(rs) <= 1
                   /\ \A i \in 1..Len(rs) : rs[i].id = req'[t].body.id
                   /\ (pc'[t] = "done" /\ req'[t].route # "sse") => Len(rs) = 1
                   /\ (pc'[t] = "done" /\ req'[t].route = "sse") =>
                         IF ret'[t] = NoErr THEN Len(rs) = 1
                         ELSE Len(rs) = 0 /\ sess'[t].closed
        /\ (HandledOne /\ LastHandled'.kind = "request" /\ ValidWithID(LastHandled'.body)) =>
                /\ Len(stdout') = Len(stdout) + 1
                /\ stdout'[Len(stdout')].id = LastHandled'.body.id
        /\ ~HandledOne => stdout' = stdout
      ]_vars

\* C1 witness: one POST over SSE was answered on its stream, another was
\* served to the end on a session that Stop had closed.
C1_Witness ==
    \E t, u \in Tasks :
        /\ req[t].verb = "POST" /\ req[t].route = "sse" /\ pc[t] = "done"
        /\ ret[t] = NoErr /\ Len(ResponsesIn(w[t])) = 1
        /\ req[u].verb = "POST" /\ req[u].route = "sse" /\ pc[u] = "done"
        /\ ret[u] # NoErr /\ sess[u].closed

\* C2 (as stated): a decoded request without an id never gets a JSON-RPC
\* response, on HTTP whatever its Accept header and version, and on stdio.
C2_NoResponseToNotification ==
    [][ /\ \A t \in Tasks :
             (DecodedPost(req'[t]) /\ req'[t].body.id = NilID) =>
                ResponsesIn(w'[t]) = <<>>
        /\ (HandledOne /\ LastHandled'.kind = "request" /\ LastHandled'.body.id = NilID) =>
                stdout' = stdout
      ]_vars

\* C3: a HandleRequest call whose context carries a sender invokes one sender
\* operation, once: never more, exactly one by the time it returns, and what
\* it returns is what that one operation returned (no second attempt).
C3_OneSenderInvocation ==
    (req[1].verb = "call" /\ req[1].sender # "none") =>
        /\ Len(log) <= 1
        /\ pc[1] = "returned" =>
              /\ Len(log) = 1
              /\ log[1].op \in {"SendResponse", "SendError"}
              /\ log[1].id = req[1].body.id
              /\ ret[1] = log[1].err

\* C3 witness: the call has returned after its one send failed.
C3_Witness ==
    /\ req[1].verb = "call" /\ req[1].sender = "http" /\ pc[1] = "returned"
    /\ Len(log) = 1 /\ log[1].err # NoErr /\ ret[1] = log[1].err

LogOf(kind) == SelectSeq(log, LAMBDA e : e.sender = kind)

\* C4 (as stated): through each sender instance, of each variant, at most one
\* response is ever written.
C4_EverySenderSingleUse ==
    mode = "direct" =>
        /\ Len(hs.out) <= 1
        /\ Len(stdout) <= 1
        /\ Len(ResponsesIn(w[1])) <= 1

\* C4 (amended): the HTTP direct-writer is single-use: it writes at most one
\* response and rejects every call after its first with "response already
\* sent".  The stdout writer keeps no guard: every call on it writes a line.
C4_HTTPSenderSingleUse ==
    mode = "direct" =>
        /\ Len(hs.out) <= 1
        /\ LET calls == LogOf("http")
           IN \A i \in 1..Len(calls) :
                 IF i = 1 THEN calls[i].err # "response already sent"
                 ELSE calls[i].err = "response already sent"
        /\ Len(stdout) = Len(LogOf("stdout"))

\* C4 witness: a second call on the HTTP sender was rejected, and the stdout
\* sender was called too.
C4_Witness ==
    /\ mode = "direct"
    /\ Len(LogOf("http")) >= 2 /\ Len(hs.out) = 1
    /\ Len(LogOf("stdout")) >= 1

\* The event ids on a stream, in the order written.
EventIDsIn(items) ==
    LET ls == SelectSeq(items, LAMBDA x : x.k = "id")
    IN [i \in 1..Len(ls) |-> ls[i].n]
\* The events written in full.
FramesIn(items) == Len(SelectSeq(items, LAMBDA x : x.k = "blank"))

StrictlyIncreasing(ids) == \A i, j \in 1..Len(ids) : i < j => ids[i] < ids[j]

\* C5 (as stated): under one session id, across all the streams opened with
\* it, event ids increase on each stream and no event id is emitted twice.
C5_NoEventIDReuse ==
    \A t, u \in Tasks :
        (sess[t].made /\ sess[u].made /\ sess[t].ID = sess[u].ID) =>
            /\ StrictlyIncreasing(EventIDsIn(w[t]))
            /\ t # u => \A i \in 1..Len(EventIDsIn(w[t])), j \in 1..Len(EventIDsIn(w[u])) :
                           EventIDsIn(w[t])[i] # EventIDsIn(w[u])[j]

\* The first event id the claim gives a stream, by its Last-Event-ID header.
ExpectedStart(h) ==
    CASE h = <<"0">> -> 1
      [] h = <<"2">> -> 3
      [] h = <<"1", "0">> -> 11
      [] h = <<"-", "1">> -> 0
      [] h = <<"+", "1">> -> 2
      [] OTHER -> 0

\* The sendEvent calls on session s that have returned nil: the events on the
\* stream, less the one whose writer has yet to flush and return.
Sent(s) ==
    FramesIn(w[s]) - Cardinality({t \in Tasks : InSend(t) /\ cur[t] = s /\ spc[t] = "flush"})

C7_ClosedSessionRejects ==
    [][ /\ \A s \in Tasks :
             sess[s].closed =>
                /\ sess'[s].closed
                /\ w'[s] = w[s]
                /\ sess'[s].eventID = sess[s].eventID
        /\ \A t \in Tasks :
             (InSend(t) /\ spc[t] = "lock" /\ sess[cur[t]].closed) =>
                /\ spc'[t] = "lock"
                /\ (pc'[t] # pc[t] \/ ev'[t] # ev[t]) => ret'[t] = "session closed"
      ]_vars

\* C7 witness: a session that carried events was closed, and a send on it
\* was then refused.
C7_Witness ==
    \E t \in Tasks :
        /\ sess[t].made /\ sess[t].closed /\ FramesIn(w[t]) >= 1
        /\ pc[t] = "done" /\ ret[t] = "session closed"

\* The lines of a stream form whole events, but for the one being written.
RECURSIVE Framed(_, _, _)
Framed(items, i, st) ==
    IF i > Len(items) THEN TRUE
    ELSE LET k == items[i].k
         IN CASE st = "start" -> k = "id" /\ Framed(items, i + 1, "id")
              [] st = "id" -> \/ k = "event" /\ Framed(items, i + 1, "event")
                              \/ k = "data" /\ Framed(items, i + 1, "data")
              [] st = "event" -> k = "data" /\ Framed(items, i + 1, "data")
              [] st = "data" -> \/ k = "data" /\ Framed(items, i + 1, "data")
                                \/ k = "blank" /\ Framed(items, i + 1, "start")

Writing(t) == InSend(t) /\ spc[t] \in {"head", "data", "flush"}

\* C8: with any tasks writing to one session at once, the lines on its stream
\* form whole events in ascending id order, and the session lock is held by
\* a task exactly while it writes one event.
C8_FramesAtomicAndOrdered ==
    \A s \in Tasks :
        /\ Framed(w[s], 1, "start")
        /\ StrictlyIncreasing(EventIDsIn(w[s]))
        /\ \A t \in Tasks : (Writing(t) /\ cur[t] = s) <=> smu[s] = t

\* C8 witness: one task is in the middle of an event while another waits for
\* the lock, on a stream that already carries events of both kinds.
C8_Witness ==
    /\ mode = "direct"
    /\ \E t, u \in Tasks :
          /\ t # u /\ cur[t] = 1 /\ cur[u] = 1
          /\ pc[t] = "call" /\ spc[t] = "data"
          /\ pc[u] = "call" /\ spc[u] = "lock"
    /\ FramesIn(w[1]) >= 2

StopDone == stopPc \in {"shutdown", "done"}

\* C9 (as stated): a session made by GET or by a POST over SSE is in the
\* registry under its id when made, and is destroyed on cancellation: once
\* the context is cancelled, Stop is through with the sessions and the
\* session's handler has returned, it is out of the registry and closed.
C9_DestroyedOnCancel ==
    \A t \in Tasks :
        sess[t].made =>
            /\ (pc[t] \notin {"store", "done"} /\ stopPc = "wait"
                   /\ \A u \in Tasks \ {t} : ~(sess[u].made /\ sess[u].ID = sess[t].ID))
                  => (sess[t].ID \in DOMAIN sessions /\ sessions[sess[t].ID] = t)
            /\ (ctxDone /\ StopDone /\ pc[t] = "done") =>
                  (sess[t].closed /\ t \notin Registered)

\* C10: Stop takes every session of the registry, closes each while nobody
\* holds that session's lock (a writer finishes the event it is writing
\* first), leaves the registry untouched until all are closed, and then
\* empties it; nothing is written to a session after it is closed.
C10_StopClosesRegistered ==
    [][ /\ (stopPc = "wait" /\ stopPc' = "closing") => stopLeft' = Registered
        /\ stopPc = "closing" =>
              /\ \A s \in Registered \ stopLeft : sess[s].closed
              /\ stopPc' = "closing" => sessions' = sessions
              /\ stopPc' # "closing" =>
                    /\ sessions' = EmptyRegistry
                    /\ \A s \in Registered : sess'[s].closed
        /\ \A s \in Tasks :
              /\ (~sess[s].closed /\ sess'[s].closed) => (smu[s] = Free /\ w'[s] = w[s])
              /\ sess[s].closed => w'[s] = w[s]
      ]_vars

\* C10 witness: Stop is through; it closed a session whose stream carries a
\* response, and a session on which a later send was refused.
C10_Witness ==
    /\ stopPc = "shutdown" /\ sessions = EmptyRegistry
    /\ \E s, t \in Tasks :
          /\ sess[s].closed /\ Len(ResponsesIn(w[s])) = 1
          /\ sess[t].closed /\ ret[t] = "session closed"

\* The task is between t.mu.Lock() and t.mu.Unlock().
InRegistry(t) == pc[t] \in {"store", "delete"}

LockHeldByUser ==
    /\ \A t \in Tasks : InRegistry(t) <=> tmu = t
    /\ stopPc = "closing" <=> tmu = Stopper

\* C11: whoever is at an insert, a delete, or Stop's range and replacement of
\* the registry holds the registry lock, so at most one of the handlers and
\* Stop is there at a time; and the registry changes only in a step of the
\* lock's holder.
C11_RegistryUnderLock ==
    [][ /\ LockHeldByUser /\ LockHeldByUser'
        /\ Cardinality({t \in Tasks : InRegistry(t)})
              + (IF stopPc = "closing" THEN 1 ELSE 0) <= 1
        /\ sessions' # sessions =>
              \/ tmu = Stopper /\ stopPc = "closing" /\ stopPc' = "shutdown"
              \/ tmu \in Tasks /\ InRegistry(tmu) /\ pc'[tmu] \notin {"store", "delete"}
        /\ stopLeft' # stopLeft => (tmu' = Stopper)
      ]_vars

\* C11 witness: a handler holds the lock for its insert while another
\* handler, past <-ctx.Done(), and Stop both wait for it.
C11_Witness ==
    \E t, u \in Tasks :
        /\ pc[t] = "store" /\ tmu = t
        /\ pc[u] = "wait" /\ ctxDone /\ stopPc = "wait"

NamedEventsIn(items) == SelectSeq(items, LAMBDA x : x.k = "event")
DataIn(items) == SelectSeq(items, LAMBDA x : x.k = "data")

\* C12: on every opened stream the first write comes after the session's
\* insertion into the registry and is the head of the "connected" event;
\* that event is the stream's first and its only named one, and every
\* JSON-RPC payload on the stream comes after it.
C12_InsertThenHandshakeThenPayload ==
    [][ \A s \in Tasks :
          sess[s].made =>
             /\ (w[s] = <<>> /\ w'[s] # <<>>) =>
                   /\ pc[s] = "connected" /\ spc[s] = "head"
                   /\ w'[s] = <<IdLine(SeedEventID(req[s].lastEventID)),
                                EventLine("connected")>>
             /\ w'[s] # <<>> =>
                   /\ Len(w'[s]) >= 2
                   /\ w'[s][2] = EventLine("connected")
                   /\ Len(NamedEventsIn(w'[s])) = 1
                   /\ \A i \in 1..Len(DataIn(w'[s])) :
                         (i = 1) <=> (DataIn(w'[s])[i].v = Connected(sess[s].ID))
                   /\ \A i \in 1..Len(w'[s]) :
                         IsResponseItem(w'[s][i]) => i > 4
      ]_vars

\* C12 witness: a POST over SSE whose stream carries the handshake and then
\* the response.
C12_Witness ==
    \E s \in Tasks :
        /\ sess[s].made /\ req[s].route = "sse" /\ pc[s] = "done"
        /\ FramesIn(w[s]) = 2 /\ Len(ResponsesIn(w[s])) = 1
        /\ IsResponseItem(w[s][Len(w[s]) - 1])

Undecodable(line) == line.kind \in {"garbage", "mistyped"}
ParseErrorResponse(id) ==
    Response(id, NoResult, ErrorResponse(ErrorCodeParseError, "Parse error"))

\* C13 (as stated): a non-blank stdio line that does not decode as a request
\* gets exactly one response, with code -32700, and no dispatch; the
\* response's id is the id the line's text holds when it holds one, else -1.
C13_ParseErrorRecoversID ==
    [][ (HandledOne /\ Undecodable(LastHandled')) =>
            /\ ~LastHandled'.dispatched
            /\ stdout' = Append(stdout,
                                ParseErrorResponse(IF LastHandled'.body.id # NilID
                                                   THEN LastHandled'.body.id
                                                   ELSE "-1"))
      ]_vars

BadVersion(line) == line.kind = "request" /\ line.body.jsonrpc # JSONRPCVersion

\* C14: a stdio line that decodes but whose version is not "2.0" is dropped,
\* with or without an id: nothing is written, the dispatcher is not called,
\* and the loop is back at its select with the reader left as it was, free
\* to scan or hand over the next line.
C14_BadVersionDropped ==
    [][ (HandledOne /\ BadVersion(LastHandled')) =>
            /\ stdout' = stdout
            /\ ~LastHandled'.dispatched
            /\ lpc' = "select" /\ rpc' = rpc /\ chClosed' = chClosed
      ]_vars

\* C14 witness: a line of version "1.0" carrying an id was dropped, and the
\* next line, a valid request, was answered.
C14_Witness ==
    /\ Len(handled) = 2 /\ Len(stdout) = 1
    /\ BadVersion(handled[1]) /\ handled[1].body.id # NilID
    /\ handled[2].kind = "request" /\ ValidWithID(handled[2].body)
    /\ handled[2].dispatched /\ stdout[1].id = handled[2].body.id

\* C15: standard output has one writer, the dispatch loop inside
\* handleMessage: every write is made there and appends one whole line, and
\* while one handleMessage is at work the loop takes no further line, so no
\* two response writes are ever in progress together.
C15_StdoutSerialized ==
    [][ /\ stdout' # stdout =>
              /\ lpc = "handle" /\ lpc' = "select"
              /\ Len(stdout') = Len(stdout) + 1
              /\ SubSeq(stdout', 1, Len(stdout)) = stdout
        /\ lpc = "handle" => handled' = handled
        /\ Len(handled') > Len(handled) => lpc = "select"
      ]_vars

\* C15 witness: handleMessage is at work on a request while the reader
\* already holds the next line, a second response being due after the first.
C15_Witness ==
    /\ lpc = "handle" /\ rpc = "send" /\ Len(stdout) = 1
    /\ handled[Len(handled)].dispatched /\ rline.kind = "garbage"

StartReturns == lpc = "select" /\ lpc' \in {"returned nil", "returned err"}

\* C16: the stdio Start returns an error only when reading the input failed
\* (the reader stands at the send of scanner.Err()); it returns nil when it
\* leaves because the input ended (the reader has closed its channels) or
\* because the context was cancelled, and it returns for no other reason.
C16_StartErrorOnlyOnReadFailure ==
    [][ StartReturns =>
            /\ lpc' = "returned err" => rpc = "senderr"
            /\ lpc' = "returned nil" => (ctxDone \/ "errChan" \in chClosed)
            /\ rpc # "senderr" => lpc' = "returned nil"
      ]_vars

\* C16 witness: Start has returned the read error after answering a line,
\* with no cancellation.
C16_Witness ==
    /\ mode = "stdio" /\ lpc = "returned err" /\ ~ctxDone /\ Len(stdout) >= 1

StartReturned ==
    \/ mode = "http" /\ stopPc = "done"
    \/ mode = "stdio" /\ lpc \in {"returned nil", "returned err"}

\* C17: once the root context is cancelled, Start returns in the end, on
\* stdio (the loop leaves its select) and on HTTP (Stop has run, whatever
\* the handlers in flight), and every GET handler blocked on the context
\* returns with its session out of the registry.
C17_StartReturnsAfterCancel ==
    /\ ctxDone ~> StartReturned
    /\ \A t \in Tasks :
          (ctxDone /\ pc[t] = "wait") ~> (pc[t] = "done" /\ t \notin Registered)

\* C17 witness: the HTTP Start has returned after a blocked GET handler
\* returned, while a POST over SSE was still in flight.
C17_Witness ==
    /\ mode = "http" /\ stopPc = "done" /\ sessions = EmptyRegistry
    /\ \E t, u \in Tasks :
          /\ req[t].verb = "GET" /\ pc[t] = "done"
          /\ req[u].verb = "POST" /\ pc[u] \in {"connected", "dispatch", "respond"}

(***************************************************************************)
(* POST negotiation.                                                       *)
(***************************************************************************)
\* A POST whose body decoded, with the Accept header it came with.
DecodedPostOf(t) == req[t].verb = "POST" /\ req[t].route # "parse-error"
WantsSSE(t) == "text/event-stream" \in req[t].accept
WantsJSON(t) == "application/json" \in req[t].accept

\* The items of a reply that carry a JSON-RPC error of the given code.
IsErrorOf(x, code) == x.k = "json" /\ x.v.error.code = code

C19_NotificationNoContent ==
    \A t \in Tasks :
        (DecodedPostOf(t) /\ req[t].body.id = NilID) =>
            /\ pc[t] = "done"
            /\ w[t] = <<StatusOnly(204)>>
            /\ dispatches[t] = <<>>
            /\ ~sess[t].made
            /\ t \notin Registered

\* A POST that passes handlePost's tests: it decodes, its Accept header
\* names one of the two media types, its version is "2.0" and it has an id.
ValidPost(r) ==
    /\ r.verb = "POST" /\ r.route # "parse-error"
    /\ r.accept # {}
    /\ ValidWithID(r.body)

\* C20: a valid POST with an id makes one server.HandleRequest call, never
\* two, and has made it by the time its handler returns.  When the Accept
\* header names text/event-stream, with or without application/json, the
\* call carries an SSEResponseSender on the session made for this very
\* request, and no JSON reply is written to the response; otherwise it
\* carries an HTTPResponseSender, no session is made, and the response gets
\* JSON replies only.  Either way the call is of the request's body under
\* context.WithTimeout(ctx, RequestTimeout).
C20_DispatchedByOnePath ==
    [][ \A t \in Tasks :
          /\ ValidPost(req'[t]) =>
                LET r == req'[t]
                    ds == dispatches'[t]
                IN /\ Len(ds) <= 1
                   /\ pc'[t] = "done" => Len(ds) = 1
                   /\ \A i \in 1..Len(ds) :
                         /\ ds[i].body = r.body
                         /\ ds[i].timeout = RequestTimeout
                         /\ ds[i].sender =
                               IF "text/event-stream" \in r.accept THEN "sse" ELSE "http"
                   /\ IF "text/event-stream" \in r.accept
                      THEN /\ sess'[t].made
                           /\ \A i \in 1..Len(ds) : ds[i].session = sess'[t].ID
                           /\ \A i \in 1..Len(w'[t]) : w'[t][i].k # "json"
                      ELSE /\ ~sess'[t].made /\ t \notin Registered'
                           /\ \A i \in 1..Len(w'[t]) : w'[t][i].k = "json"
          \* the session is made when the request arrives, not found
          /\ (req'[t] # req[t] /\ ValidPost(req'[t])
                 /\ "text/event-stream" \in req'[t].accept) =>
                (~sess[t].made /\ sess'[t].made /\ dispatches'[t] = <<>>)
      ]_vars

\* C20 witness: two valid POSTs have been served to the end, one accepting
\* both media types and dispatched over its session, one accepting only
\* application/json and dispatched with the direct sender.
C20_Witness ==
    \E t, u \in Tasks :
        /\ ValidPost(req[t]) /\ pc[t] = "done"
        /\ req[t].accept = {"application/json", "text/event-stream"}
        /\ dispatches[t] = <<Dispatching("sse", sess[t].ID, req[t].body)>>
        /\ ValidPost(req[u]) /\ pc[u] = "done"
        /\ req[u].accept = {"application/json"}
        /\ dispatches[u] = <<Dispatching("http", "", req[u].body)>>

(***************************************************************************)
(* The dispatcher: routing, parameters, handler errors.                    *)
(***************************************************************************)
\* The HandleRequest call of the dispatcher runs enters the dispatcher in
\* this step: todo'[1] is all it will send, invoked' all it called.
Entering == mode = "dispatch" /\ pc[1] = "idle" /\ pc'[1] = "invoking"
HasSender == req[1].sender # "none"

\* The capability operation each method is served by (none for initialize
\* and ping, which the dispatcher answers itself), the kind of result each
\* method's handler yields, and the message its failure is reported with.
OperationOf(m) ==
    CASE m = "tools/list" -> {"ListTools"}
      [] m = "tools/call" -> {"CallTool"}
      [] m = "resources/list" -> {"ListResources"}
      [] m = "resources/read" -> {"ReadResource"}
      [] m = "prompts/list" -> {"ListPrompts"}
      [] m = "prompts/get" -> {"GetPrompt"}
      [] OTHER -> {}
ResultKindOf(m) ==
    CASE m = "initialize" -> {"initialize"}
      [] m = "tools/list" -> {"tools"}
      [] m = "tools/call" -> {"content"}
      [] m = "resources/list" -> {"resources"}
      [] m = "resources/read" -> {"contents"}
      [] m = "prompts/list" -> {"prompts"}
      [] m = "prompts/get" -> {"messages"}
      [] m = "ping" -> {"object"}
      [] OTHER -> {}

IsSuccess(resp) == resp.error = NoError
Ops(calls) == {calls[i].op : i \in 1..Len(calls)}

\* C21: each of the eight method names is served by its own handler: the
\* capability operation invoked, if any, is that method's, and a result
\* sent is of that method's kind, never a MethodNotFound error.  For every
\* other method string no capability operation is invoked and the one
\* thing sent is a MethodNotFound (-32601) error with the request's id.
C21_Routing ==
    [][ Entering =>
          LET m == req[1].body.method
              sends == todo'[1]
          IN IF m \in Methods
             THEN /\ Ops(invoked') \subseteq OperationOf(m)
                  /\ \A i \in 1..Len(sends) :
                        /\ sends[i].resp.error.code # ErrorCodeMethodNotFound
                        /\ IsSuccess(sends[i].resp) =>
                              sends[i].resp.result.kind \in ResultKindOf(m)
                  /\ (HasSender /\ req[1].handler = "coffee" /\ m \notin
                        {"tools/call", "resources/read", "prompts/get"}) =>
                        (Len(sends) = 1 /\ IsSuccess(sends[1].resp)
                           /\ Ops(invoked') = OperationOf(m))
             ELSE /\ invoked' = <<>>
                  /\ HasSender =>
                        sends = <<SendErrorCall(req[1].body.id, ErrorCodeMethodNotFound,
                                                "Method " \o m \o " not found")>>
      ]_vars

\* C21 witness: a call of an unknown method has returned; its sender wrote
\* the -32601 error and no capability operation was invoked.
C21_Witness ==
    /\ mode = "dispatch" /\ pc[1] = "returned"
    /\ req[1].body.method = "tools/unknown" /\ req[1].body.id = "a"
    /\ invoked = <<>>
    /\ Len(hs.out) = 1 /\ hs.out[1].v.id = "a"
    /\ hs.out[1].v.error.code = ErrorCodeMethodNotFound

\* The methods that take parameters, the field each requires, and the
\* message an extraction failure is reported with.
ParamMethods == {"tools/call", "resources/read", "prompts/get"}
RequiredField(m, params) == IF m = "resources/read" THEN params.uri ELSE params.name
ExtractionMessage(m) ==
    CASE m = "tools/call" -> "Invalid tool call parameters"
      [] m = "resources/read" -> "Invalid resource read parameters"
      [] m = "prompts/get" -> "Invalid prompt parameters"
BadParams(m, params) ==
    \/ params.shape = "nil"
    \/ params.shape # "object"
    \/ RequiredField(m, params).t # "string"

\* C22: for tools/call, resources/read and prompts/get, extraction fails
\* exactly when params is absent, is not an object, or lacks a string in the
\* required field; then no capability operation is invoked and the one thing
\* sent is an InvalidParams (-32602) error.  Otherwise the operation is
\* invoked once with the required field's string, and with the arguments
\* object if there is one, else with the empty map.
C22_ParamExtraction ==
    [][ (Entering /\ req[1].body.method \in ParamMethods) =>
          LET m == req[1].body.method
              params == req[1].body.params
              sends == todo'[1]
              failure == SendErrorCall(req[1].body.id, ErrorCodeInvalidParams,
                                       ExtractionMessage(m))
          IN IF BadParams(m, params)
             THEN /\ invoked' = <<>>
                  /\ HasSender => sends = <<failure>>
             ELSE /\ Len(invoked') = 1
                  /\ invoked'[1].op \in OperationOf(m)
                  /\ invoked'[1].arg = RequiredField(m, params).v
                  /\ m # "resources/read" =>
                        invoked'[1].arguments =
                            IF params.arguments.t = "obj"
                            THEN [name |-> params.arguments.name]
                            ELSE EmptyMap
                  /\ \A i \in 1..Len(sends) : sends[i] # failure
      ]_vars

\* C22 witness: a tools/call whose name is not a string was refused with
\* -32602 and CallTool was not invoked.
C22_Witness ==
    /\ mode = "dispatch" /\ pc[1] = "returned"
    /\ req[1].body.method = "tools/call"
    /\ req[1].body.params.shape = "object" /\ req[1].body.params.name = NonString
    /\ invoked = <<>>
    /\ Len(hs.out) = 1
    /\ hs.out[1].v.error = ErrorResponse(ErrorCodeInvalidParams,
                                         "Invalid tool call parameters")

\* What the capability operation of an invocation returned.
OpResult(h, expired, inv) ==
    CASE inv.op = "ListTools" -> H_ListTools(h)
      [] inv.op = "CallTool" ->
             H_CallTool(h, expired, [name |-> inv.arg, arguments |-> inv.arguments])
      [] inv.op = "ListResources" -> H_ListResources(h)
      [] inv.op = "ReadResource" -> H_ReadResource(h, [uri |-> inv.arg])
      [] inv.op = "ListPrompts" -> H_ListPrompts(h)
      [] inv.op = "GetPrompt" ->
             H_GetPrompt(h, [name |-> inv.arg, arguments |-> inv.arguments])

\* How the dispatcher reports an operation's error err.
FailureOf(op, err) ==
    CASE op = "ListTools" -> ErrorResponse(ErrorCodeInternalError, "Failed to list tools")
      [] op = "ListResources" ->
             ErrorResponse(ErrorCodeInternalError, "Failed to list resources")
      [] op = "ListPrompts" -> ErrorResponse(ErrorCodeInternalError, "Failed to list prompts")
      [] op = "CallTool" -> ErrorResponse(ErrorCodeInvalidParams, "Tool call failed: " \o err)
      [] op = "ReadResource" ->
             ErrorResponse(ErrorCodeInvalidParams, "Resource read failed: " \o err)
      [] op = "GetPrompt" -> ErrorResponse(ErrorCodeInvalidParams, "Prompt call failed: " \o err)

\* The errors getDrinkInfo returns to the clients of the serving runs.
ToolErrors == {"drink not found: Tea", "context done"}
IsToolFailure(resp) ==
    \E e \in ToolErrors : resp.error = FailureOf("CallTool", e)

\* This step writes a failed tool call's response: a line on standard
\* output, a reply on task t's response, an event on task t's stream.
WritesToolFailure ==
    \/ /\ Len(stdout') = Len(stdout) + 1
       /\ IsToolFailure(stdout'[Len(stdout')])
    \/ \E t \in Tasks :
          LET before == ResponsesIn(w[t])
              after == ResponsesIn(w'[t])
          IN Len(after) = Len(before) + 1 /\ IsToolFailure(after[Len(after)])

\* C23: an error returned by CallTool, ReadResource or GetPrompt is sent as
\* one InvalidParams (-32602) error whose message holds the operation's
\* message, an error returned by ListTools, ListResources or ListPrompts as
\* one InternalError (-32603) error.  On the transports a call of
\* getDrinkInfo for a drink that is not on the menu is answered so, and the
\* step that writes the answer ends nothing: Start does not return, no
\* channel and no session is closed, the registry keeps its sessions, and
\* the stdio loop is back at its select.
C23_HandlerErrorsDelivered ==
    [][ /\ (Entering /\ HasSender /\ invoked' # <<>>) =>
             LET inv == invoked'[1]
                 r == OpResult(req[1].handler, req[1].expired, inv)
             IN r.err # NoErr =>
                   todo'[1] = <<[op |-> "SendError",
                                 resp |-> Response(req[1].body.id, NoResult,
                                                   FailureOf(inv.op, r.err))]>>
        /\ (mode \in {"http", "stdio"} /\ WritesToolFailure) =>
             /\ stopPc' = stopPc
             /\ lpc' = "select"
             /\ chClosed' = chClosed /\ rpc' = rpc
             /\ sessions' = sessions
             /\ \A s \in Tasks : sess'[s].closed = sess[s].closed
        /\ (HandledOne /\ LastHandled'.body.params.arguments.name = Str("Tea")) =>
             /\ Len(stdout') = Len(stdout) + 1
             /\ IsToolFailure(stdout'[Len(stdout')])
        /\ \A t \in Tasks :
             (mode = "http" /\ pc'[t] = "done" /\ ret'[t] = NoErr
                /\ req'[t].body.params.arguments.name = Str("Tea")
                /\ req'[t].route \in {"sse", "json"}) =>
                LET rs == ResponsesIn(w'[t])
                IN Len(rs) = 1 /\ IsToolFailure(rs[1])
      ]_vars

\* C23 witness: on stdio a call for an unknown drink was answered with the
\* -32602 error, and the next line, a call for a Latte, with a result.
C23_Witness ==
    /\ mode = "stdio" /\ lpc = "select"
    /\ Len(handled) = 2 /\ Len(stdout) = 2
    /\ handled[1].body.params.arguments.name = Str("Tea")
    /\ stdout[1].error = FailureOf("CallTool", "drink not found: Tea")
    /\ handled[2].body.params.arguments.name = Str("Latte")
    /\ IsSuccess(stdout[2])

\* C24: a HandleRequest call whose context carries no sender, whatever the
\* method, the parameters and the handler's outcome, invokes no sender
\* operation and writes nothing, invokes a capability operation at most
\* once, and returns the error "no response sender in context".
C24_NoSenderReturnsError ==
    (mode = "dispatch" /\ ~HasSender) =>
        /\ todo[1] = <<>> /\ log = <<>>
        /\ hs.out = <<>> /\ stdout = <<>>
        /\ Len(invoked) <= 1
        /\ pc[1] = "returned" => (ret[1] = NoSenderErr /\ ret[1] # NoErr)

\* C24 witness: without a sender a tools/call that the tool served has
\* returned the error.
C24_Witness ==
    /\ mode = "dispatch" /\ ~HasSender /\ pc[1] = "returned"
    /\ ret[1] = NoSenderErr
    /\ req[1].body.method = "tools/call" /\ req[1].handler = "coffee"
    /\ Ops(invoked) = {"CallTool"}
    /\ OpResult("coffee", req[1].expired, invoked[1]).err = NoErr

(***************************************************************************)
(* Ping.                                                                   *)
(***************************************************************************)
IsPing(b) == b.method = "ping" /\ b.id # NilID
Pong(id) == Response(id, [kind |-> "object", items |-> <<>>], NoError)

\* C25 (as stated): a ping with an id is answered with one success response
\* holding the empty object and the request's id, and with nothing else, on
\* the dispatcher whatever its params, on stdio, and on a POST answered
\* directly or over SSE, whatever came before.
C25_PingAlwaysSucceeds ==
    [][ /\ (Entering /\ HasSender /\ IsPing(req[1].body)) =>
             todo'[1] = <<[op |-> "SendResponse", resp |-> Pong(req[1].body.id)]>>
        /\ (HandledOne /\ LastHandled'.kind = "request" /\ IsPing(LastHandled'.body)) =>
             stdout' = Append(stdout, Pong(LastHandled'.body.id))
        /\ \A t \in Tasks :
             (mode = "http" /\ DecodedPost(req'[t]) /\ IsPing(req'[t].body)) =>
                LET rs == ResponsesIn(w'[t])
                IN /\ \A i \in 1..Len(rs) : rs[i] = Pong(req'[t].body.id)
                   /\ Len(rs) <= 1
                   /\ pc'[t] = "done" => Len(rs) = 1
      ]_vars

\* C25 (amended): a ping with an id that passes the transport's tests
\* (version "2.0"; on HTTP an Accept header naming one of the two media
\* types) is never answered with an error, and its one answer is the success
\* response holding the empty object and the request's id, whatever its
\* params and whatever came before.  It gets that answer on the dispatcher,
\* on stdio and on a POST answered directly; on a POST answered over SSE it
\* gets it unless the session was closed first, and then it gets nothing.
C25_ValidPingSucceeds ==
    [][ /\ (Entering /\ HasSender /\ IsPing(req[1].body)) =>
             todo'[1] = <<[op |-> "SendResponse", resp |-> Pong(req[1].body.id)]>>
        /\ (HandledOne /\ LastHandled'.kind = "request" /\ IsPing(LastHandled'.body)
               /\ LastHandled'.body.jsonrpc = JSONRPCVersion) =>
             stdout' = Append(stdout, Pong(LastHandled'.body.id))
        /\ \A t \in Tasks :
             (mode = "http" /\ ValidPost(req'[t]) /\ IsPing(req'[t].body)) =>
                LET rs == ResponsesIn(w'[t])
                IN /\ \A i \in 1..Len(rs) : rs[i] = Pong(req'[t].body.id)
                   /\ Len(rs) <= 1
                   /\ (pc'[t] = "done" /\ req'[t].route = "json") => Len(rs) = 1
                   /\ (pc'[t] = "done" /\ req'[t].route = "sse") =>
                         IF ret'[t] = NoErr THEN Len(rs) = 1
                         ELSE Len(rs) = 0 /\ sess'[t].closed
      ]_vars

\* C25 witness: a ping with params came after a call for an unknown drink:
\* one POST was answered with the -32602 error, then the ping, posted over
\* SSE, with the empty object under its id "a".
C25_Witness ==
    \E t, u \in Tasks :
        /\ mode = "http"
        /\ ValidPost(req[u]) /\ pc[u] = "done" /\ req[u].route = "json"
        /\ Len(ResponsesIn(w[u])) = 1 /\ IsToolFailure(ResponsesIn(w[u])[1])
        /\ ValidPost(req[t]) /\ IsPing(req[t].body) /\ req[t].body.params = ScalarParams
        /\ req[t].route = "sse" /\ pc[t] = "done"
        /\ ResponsesIn(w[t]) = <<Pong("a")>>

(***************************************************************************)
(* Expiry of the request context.                                          *)
(***************************************************************************)
\* C26: when the context of a dispatched request is done (its timeout has
\* passed or it was cancelled) before the request completes, the request is
\* answered, through the sender its transport put in the context, with one
\* error response under its id, and the call returns.
C26_ExpiryYieldsError ==
    [][ (Entering /\ HasSender /\ req[1].expired) =>
            /\ Len(todo'[1]) = 1
            /\ todo'[1][1].resp.id = req[1].body.id
            /\ ~IsSuccess(todo'[1][1].resp)
      ]_vars

(***************************************************************************)
(* The transport boundary.                                                 *)
(***************************************************************************)
\* C27: server.HandleRequest is called only on input that decoded, has
\* version "2.0" and has an id.  A POST that fails to decode, has another
\* version or has no id makes no call, and every call a POST makes is of its
\* own body; a stdio line is handed to the dispatcher only if it decoded
\* into a request of version "2.0" with an id.
C27_OnlyValidReachDispatcher ==
    /\ \A t \in Tasks :
          /\ dispatches[t] # <<>> =>
                /\ DecodedPost(req[t])
                /\ ValidWithID(req[t].body)
                /\ \A i \in 1..Len(dispatches[t]) : dispatches[t][i].body = req[t].body
          /\ \A i \in 1..Len(dispatches[t]) : ValidWithID(dispatches[t][i].body)
    /\ \A i \in 1..Len(handled) :
          handled[i].dispatched =>
              (handled[i].kind = "request" /\ ValidWithID(handled[i].body))

\* C27 witness: stdio took a line that is not JSON, a notification and a
\* request of version "1.0" with an id, and none reached the dispatcher;
\* only the parse error was answered.
C27_Witness ==
    /\ mode = "stdio" /\ lpc = "select" /\ Len(handled) = 3
    /\ handled[1].kind = "garbage"
    /\ handled[2].kind = "request" /\ handled[2].body.id = NilID
    /\ handled[2].body.jsonrpc = JSONRPCVersion
    /\ handled[3].kind = "request" /\ handled[3].body.id # NilID
    /\ handled[3].body.jsonrpc # JSONRPCVersion
    /\ \A i \in 1..3 : ~handled[i].dispatched
    /\ Len(stdout) = 1 /\ stdout[1].error.code = ErrorCodeParseError

(***************************************************************************)
(* A stream that lost its connection.                                      *)
(***************************************************************************)
\* sendEvent on session s returns in this step, having written (it gives up
\* the session's lock).
ReturnsFromWrite(t, s) == smu[s] = t /\ smu'[s] # t

\* C28: when a sendEvent has written to a stream whose connection is lost,
\* the session is closed by the time it returns, and it returns an error, so
\* that the sends that follow are refused.
C28_LostWriteClosesSession ==
    [][ \A t, s \in Tasks :
          (ReturnsFromWrite(t, s) /\ conn[s] = "lost") =>
              (sess'[s].closed /\ ret'[t] # NoErr)
      ]_vars

(***************************************************************************)
(* The shape of a response.                                                *)
(***************************************************************************)
\* The members json.Marshal writes for a Response: jsonrpc and id always,
\* result and error unless empty (omitempty: a nil interface, a nil pointer).
MarshalledFields(resp) ==
    {"jsonrpc", "id"}
        \cup (IF resp.result # NoResult THEN {"result"} ELSE {})
        \cup (IF resp.error # NoError THEN {"error"} ELSE {})

ResultXorError(resp) ==
    ("result" \in MarshalledFields(resp)) # ("error" \in MarshalledFields(resp))

\* Every response written so far, on standard output or to an HTTP client.
Emitted ==
    {stdout[i] : i \in 1..Len(stdout)}
        \cup UNION {{ResponsesIn(w[t])[i] : i \in 1..Len(ResponsesIn(w[t]))} : t \in Tasks}

\* The replies the HTTP transport makes up itself (status 400).
TransportErrors ==
    UNION {{w[t][i].v : i \in {j \in 1..Len(w[t]) : w[t][j].k = "json" /\ w[t][j].status = 400}}
           : t \in Tasks}

\* C29: every response written, by either transport and for the dispatcher
\* or on the transport's own account, has exactly one of result and error;
\* the same holds of the responses the dispatcher is about to hand to a
\* sender, where a SendResponse carries a result and a SendError an error;
\* and the transport's own replies are errors.
C29_ResultXorError ==
    /\ \A resp \in Emitted : ResultXorError(resp)
    /\ \A resp \in TransportErrors : "error" \in MarshalledFields(resp)
    /\ \A t \in Tasks : \A i \in 1..Len(todo[t]) :
          /\ ResultXorError(todo[t][i].resp)
          /\ ("result" \in MarshalledFields(todo[t][i].resp)) = (todo[t][i].op = "SendResponse")

\* A success, an error of the dispatcher's and a parse error of the
\* transport's have all been written.
C29_Witness ==
    /\ \E resp \in Emitted : "result" \in MarshalledFields(resp)
    /\ \E resp \in Emitted :
          resp.error.code \in {ErrorCodeMethodNotFound, ErrorCodeInvalidParams}
    /\ \E resp \in Emitted : resp.error.code = ErrorCodeParseError

(***************************************************************************)
(* The framing of one event.                                               *)
(***************************************************************************)
\* The events of a stream whose blank line has been written, by the position
\* of their id line.
WholeEventsIn(items) ==
    {i \in 1..Len(items) :
        items[i].k = "id" /\ \E j \in (i + 1)..Len(items) : items[j].k = "blank"}

HasEventLine(items, i) == items[i + 1].k = "event"

\* The lines of the event that starts at i, up to and with its blank line.
EventAt(items, i) ==
    LET end == CHOOSE j \in (i + 1)..Len(items) :
                   items[j].k = "blank" /\ \A m \in (i + 1)..(j - 1) : items[m].k # "blank"
    IN SubSeq(items, i, end)

IsHandshake(payload) == "jsonrpc" \notin DOMAIN payload

\* The payload the data lines of an event carry (its fragments joined again).
PayloadOf(event) == SelectSeq(event, LAMBDA x : x.k = "data")[1].v

\* The lines sendEvent is to write for an event of a given id, type and payload.
FrameOf(id, type, payload) ==
    <<IdLine(id)>>
        \o (IF type # "" THEN <<EventLine(type)>> ELSE <<>>)
        \o [i \in 1..Len(Fragments(payload)) |-> DataLine(Fragments(payload)[i])]
        \o <<BlankLine>>

FlushPending(s) == Cardinality({t \in Tasks : InSend(t) /\ cur[t] = s /\ spc[t] = "flush"})

\* C30: every whole event on a stream is an id line with a number, an
\* event line exactly when the payload is the handshake's (and then it is
\* "connected"; results and errors alike have none), one data line for each
\* fragment of the payload and a blank line, and nothing else; each such
\* event has been flushed, but for the one whose writer is about to flush.
C30_EventFraming ==
    \A s \in Tasks :
        /\ \A i \in WholeEventsIn(w[s]) :
              LET event == EventAt(w[s], i)
                  payload == PayloadOf(event)
              IN /\ event[1].n \in Nat
                 /\ HasEventLine(w[s], i) <=> IsHandshake(payload)
                 /\ event = FrameOf(event[1].n,
                                    IF IsHandshake(payload) THEN "connected" ELSE "",
                                    payload)
        /\ flushes[s] + FlushPending(s) = FramesIn(w[s])

\* C30 witness: a stream carries its handshake, a result and an error, all
\* written in full and flushed.
C30_Witness ==
    \E s \in Tasks :
        /\ flushes[s] >= 3
        /\ \E i, j, k \in WholeEventsIn(w[s]) :
              /\ IsHandshake(PayloadOf(EventAt(w[s], i)))
              /\ ~IsHandshake(PayloadOf(EventAt(w[s], j)))
              /\ ~IsHandshake(PayloadOf(EventAt(w[s], k)))
              /\ PayloadOf(EventAt(w[s], j)).error = NoError
              /\ PayloadOf(EventAt(w[s], k)).error # NoError

(***************************************************************************)
(* The Coffee handler's catalogs.                                          *)
(***************************************************************************)
\* The requests handled so far whose handling is over, and the responses
\* they were answered with (every request here has an id and is answered).
Answered == IF lpc = "handle" THEN SubSeq(handled, 1, Len(handled) - 1) ELSE handled

ToolsListed == {i \in 1..Len(stdout) : stdout[i].result.kind = "tools"}

\* C31: whatever was called before, a tools/list call is answered with the
\* list of getDrinkNames and getDrinkInfo, and with nothing else: the i-th
\* answered request is a tools/list exactly when the i-th response is that
\* list, so any two tools/list results are equal.
C31_CatalogImmutable ==
    /\ Len(stdout) = Len(Answered)
    /\ \A i \in 1..Len(stdout) :
          (Answered[i].body.method = "tools/list") <=>
              (stdout[i].result = [kind |-> "tools",
                                   items |-> <<"getDrinkNames", "getDrinkInfo">>])
    /\ \A i, j \in ToolsListed : stdout[i] = stdout[j]

\* C31 witness: two tools/list calls with a tool call between them.
C31_Witness ==
    /\ Len(stdout) = 3
    /\ ToolsListed = {1, 3}
    /\ Answered[2].body.method = "tools/call"

(***************************************************************************)
(* What the capability operations return.                                  *)
(***************************************************************************)
\* The texts getDrinkNames can answer with.
NamesTexts == {"names", "{\"error\": \"Request cancelled\"}"}

\* The outcome of the operation the call invoked.
Outcome == OpResult(req[1].handler, req[1].expired, invoked[1])

\* C32: a capability operation that succeeds returns at least one item (a
\* tool, a resource, a prompt, a content item, a message), and the response
\* sent carries what it returned; getDrinkNames returns exactly one content
\* item, of type "text".
C32_OutcomesCarryContent ==
    (mode = "dispatch" /\ invoked # <<>> /\ Outcome.err = NoErr) =>
        /\ Len(Outcome.result.items) >= 1
        /\ (pc[1] = "invoking" /\ todo[1] # <<>>) =>
               todo[1] = <<SendResponseCall(req[1].body.id, Outcome.result)>>
        /\ (invoked[1].op = "CallTool" /\ invoked[1].arg = "getDrinkNames") =>
               /\ Len(Outcome.result.items) = 1
               /\ \E text \in NamesTexts :
                     Outcome.result.items[1] = ContentItem("text", text)

\* C32 witness: getDrinkNames was called under a done context, succeeded
\* and its result is about to be sent.
C32_Witness ==
    /\ mode = "dispatch" /\ invoked # <<>>
    /\ invoked[1].op = "CallTool" /\ invoked[1].arg = "getDrinkNames"
    /\ req[1].handler = "coffee" /\ req[1].expired
    /\ Outcome.err = NoErr
    /\ pc[1] = "invoking" /\ todo[1] # <<>>

(***************************************************************************)
(* Resources.                                                              *)
(***************************************************************************)
\* HandleRequest has been entered with the Coffee handler and a sender, and
\* has not called the sender yet.
AboutToSend ==
    /\ mode = "dispatch" /\ pc[1] = "invoking" /\ log = <<>>
    /\ req[1].handler = "coffee" /\ req[1].sender # "none"

\* The URIs resources/list returns.
ListedURIs == {ListResources.result.items[i] : i \in 1..Len(ListResources.result.items)}

\* C33: resources/list is answered with the one resource menu://app;
\* resources/read is answered with a result when its uri is one of the
\* listed URIs, and with an InvalidParams (-32602) error for every other
\* uri (one that is not listed, not a string, or missing).
C33_ResourcesListedAndRead ==
    AboutToSend =>
        LET body == req[1].body
            listed == body.params.shape = "object" /\ body.params.uri.t = "string"
                      /\ body.params.uri.v \in ListedURIs
        IN /\ body.method = "resources/list" =>
                 todo[1] = <<SendResponseCall(body.id,
                                              [kind |-> "resources",
                                               items |-> <<"menu://app">>])>>
           /\ (body.method = "resources/read" /\ listed) =>
                 /\ Len(todo[1]) = 1
                 /\ todo[1][1].op = "SendResponse"
                 /\ todo[1][1].resp.id = body.id
                 /\ todo[1][1].resp.result.kind = "contents"
           /\ (body.method = "resources/read" /\ ~listed) =>
                 /\ Len(todo[1]) = 1
                 /\ todo[1][1].op = "SendError"
                 /\ todo[1][1].resp.id = body.id
                 /\ todo[1][1].resp.error.code = ErrorCodeInvalidParams

\* C33 witness: a read of a URI that is not listed is about to be answered.
C33_Witness ==
    /\ AboutToSend
    /\ req[1].body.method = "resources/read"
    /\ req[1].body.params.shape = "object"
    /\ req[1].body.params.uri = Str("menu://other")
    /\ todo[1] # <<>>

(***************************************************************************)
(* The stdio loop: one line at a time, in order.                           *)
(***************************************************************************)
\* The line as the reader scanned it.
LineOf(h) == [kind |-> h.kind, body |-> h.body]

\* The lines that are answered: a line that is not JSON-RPC gets a parse
\* error, a request of the right version with an id gets its response.
Responds(line) ==
    \/ line.kind \in {"garbage", "mistyped"}
    \/ line.kind = "request" /\ line.body.jsonrpc = JSONRPCVersion /\ line.body.id # NilID

\* The id a line is answered under, and whether with a parse error.
AnswerOf(line) ==
    IF line.kind = "request"
    THEN [id |-> line.body.id, parseError |-> FALSE]
    ELSE [id |-> IF line.kind = "mistyped" /\ line.body.id # NilID THEN line.body.id
                 ELSE "-1",
          parseError |-> TRUE]

ExpectedAnswers ==
    LET rs == SelectSeq(Answered, Responds)
    IN [i \in 1..Len(rs) |-> AnswerOf(rs[i])]

WrittenAnswers ==
    [i \in 1..Len(stdout) |->
        [id |-> stdout[i].id,
         parseError |-> stdout[i].error.code = ErrorCodeParseError]]

\* C34: the loop receives the lines in the order the reader scanned them,
\* and none while handleMessage is at work on the line before; the
\* responses on standard output are, in order, those of the lines handled so
\* far that are answered, so a blank line leaves no response.
C34_OneAtATimeInOrder ==
    /\ Len(handled) <= Len(scanned)
    /\ \A i \in 1..Len(handled) : LineOf(handled[i]) = scanned[i]
    /\ Len(scanned) - Len(handled) <= 1
    /\ lpc = "handle" => (handled # <<>> /\ handled[Len(handled)].kind # "blank")
    /\ WrittenAnswers = ExpectedAnswers

\* C34 witness: two lines were answered under different ids, with a blank
\* line between them that left nothing on standard output.
C34_Witness ==
    /\ Len(handled) = 3 /\ lpc = "select"
    /\ handled[2].kind = "blank"
    /\ Len(stdout) = 2
    /\ stdout[1].id # stdout[2].id

(***************************************************************************)
(* The hand-off between the reader and the loop at the end of input.       *)
(***************************************************************************)
\* The reader has left its loop: it is closing its channels or has closed them.
ReaderDone == rpc \in {"closing", "closed"}

AllAnswers ==
    LET rs == SelectSeq(scanned, Responds)
    IN [i \in 1..Len(rs) |-> AnswerOf(rs[i])]

\* C35: with the context not cancelled, once the reader is done every line it
\* scanned has been received by the loop, each once and in order; and when
\* Start has returned, through either closed channel, handleMessage has been
\* through with each of them: every answer due is on standard output.
C35_NoLineLostAtClose ==
    (mode = "stdio" /\ ~ctxDone) =>
        /\ (ReaderDone \/ StartReturned) =>
              /\ Len(handled) = Len(scanned)
              /\ \A i \in 1..Len(scanned) : LineOf(handled[i]) = scanned[i]
        /\ StartReturned => WrittenAnswers = AllAnswers

\* C35 witness: three lines were read, the last one answered, and Start
\* returned on finding errChan closed while lineChan was still open.
C35_Witness ==
    /\ mode = "stdio" /\ ~ctxDone
    /\ lpc = "returned nil"
    /\ chClosed = {"errChan"}
    /\ Len(scanned) = 3 /\ Responds(scanned[3])
    /\ Len(stdout) >= 1

(***************************************************************************)
(* The order of the two locks.                                             *)
(***************************************************************************)
\* The tasks that hold a session's lock.
SessionLockHolders == {smu[s] : s \in Tasks} \ {Free}

\* Stop is in its range, at a session that a writer has locked.
StopWaitsForWriter ==
    /\ stopPc = "closing" /\ tmu = Stopper
    /\ \E s \in stopLeft : smu[s] \in Tasks

\* C36: a holder of a session's lock is in the middle of writing one event
\* and neither holds nor asks for the registry's lock, so the registry's lock
\* comes first wherever both are held; and then nobody is stuck for good:
\* every session lock is released in the end (unless Start returns and the
\* process is over first, Shutdown outwaiting no writer), so is the
\* registry lock, and Stop gets through its range over the sessions.
C36_NoDeadlock ==
    /\ [](\A t \in SessionLockHolders :
            /\ t \in Tasks /\ Writing(t)
            /\ tmu # t /\ ~InRegistry(t)
            /\ ~(pc[t] = "wait" /\ ctxDone))
    /\ \A s \in Tasks : (smu[s] # Free) ~> (smu[s] = Free \/ stopPc = "done")
    /\ (tmu # Free) ~> (tmu = Free)
    /\ (stopPc = "closing") ~> (stopPc \in {"shutdown", "done"} /\ tmu # Stopper)

\* C36 witness: Stop holds the registry's lock and is at a session whose
\* lock a writer holds, while a GET handler past its wait needs the
\* registry's lock to tear its stream down.
C36_Witness ==
    /\ StopWaitsForWriter
    /\ \E t \in Tasks : pc[t] = "wait" /\ ctxDone

(***************************************************************************)
(* Sessions that share an id.                                              *)
(***************************************************************************)
\* The session's stream handler is past the insert and has not returned.
HandlerRunning(t) == sess[t].made /\ pc[t] \notin {"idle", "store", "done"}

\* C37 (as stated): a session whose handler is running and which is not
\* closed is the registry's entry for its id.
C37_ActiveSessionRegistered ==
    \A t \in Tasks :
        (HandlerRunning(t) /\ ~sess[t].closed) =>
            (sess[t].ID \in DOMAIN sessions /\ sessions[sess[t].ID] = t)

(***************************************************************************)
(* Writes after Stop.                                                      *)
(***************************************************************************)
\* C38 (as stated): once Stop has closed the sessions and emptied the
\* registry, no sendEvent gets an event out (writes it in full and flushes
\* it) on any session.
C38_NoEventAfterStop ==
    [][ StopDone => flushes' = flushes ]_vars

=============================================================================
